---- MODULE Spec2Model ----
(***************************************************************************)
(* GridMap (src/src/GridMap.js): the axis model, the data model matrix     *)
(* with its pending-update table and events, the dataset parser, the       *)
(* series registry, the interaction manager and the component stack        *)
(* manager.                                                                *)
(*                                                                         *)
(* JS arrays are sequences; the arrays the program indexes from 0 (_matrix *)
(* and its rows) are read and written through ArrGet and ArrSet.  Objects  *)
(* with identity (DataGraphicsHandler, Series, measurement objects) live   *)
(* in heaps and are referred to by id.                                     *)
(***************************************************************************)
EXTENDS Integers, Sequences, FiniteSets, TLC

\* ---------------------------------------------------------------- bounds
MaxSeries == 2      \* free series of a dataset (after the frame series)
MaxRows == 2        \* rows of one free series
Wide == 12          \* rows of the frame series of the wide dataset
MaxRenders == 2     \* GridMap.render calls
MaxOps == 2         \* operations after the first render
MaxListeners == 3   \* extra end-listeners registered through onEnd
MaxStack == 3       \* entries placed in the two stacks together
MaxSize == 1        \* reserved size of a stack entry
MaxShrink == 1      \* allocateComponentSpace calls on a shared measurement
MaxColors == 3      \* entries of code.colors
MaxInits == 2       \* colorAxisManager.init calls
MaxBreaks == 4      \* largest noOfBreaks configured

VARIABLES
    chartData,      \* GridMap.chartData.dataset: the user's series and rows
    instances,      \* Series.instances: every Series ever constructed
    axes,           \* diParams.axes: the X and Y axis models
    dataModelMatrix,\* identity of the current DataModelMatrix (0: none yet)
    dmMatrix,       \* interactionManager's matrix reference
    matrix,         \* DataModelMatrix._matrix
    updateM,        \* DataModelMatrix._updateMatrix: key -> <<i, j, handler>>
    tableKeys,      \* the keys of _updateMatrix in the order they were created
    lookupModel,    \* DataModelMatrix.lookupModel
    elFns,          \* DataModelMatrix._elFns: <<fn, context>> pairs
    eventMap,       \* DataModelMatrix.eventMap
    handlers,       \* heap of DataGraphicsHandler objects of the current matrix
    last,           \* the operation performed last and its arguments
    evLog,          \* listener invocations made by the last operation
    touched,        \* cells set to a truthy value since the matrix was created
    batch,          \* cells set to a truthy value since the last end event
                    \* (touched and batch record history; the program has
                    \* no such fields)
    renders,        \* number of GridMap.render calls so far
    ops,            \* number of operations after the first render
    masterStack,    \* componentStackManager.masterStack: V and H stacks
    measurements,   \* heap of measurement objects referred to by stack entries
    shrinks,        \* number of reductions of a measurement so far
    config,         \* the axes' config.model entries: [x |-> hook, y |-> hook]
    axisModels,     \* AxisModel.model of the X and Y axis instances
    axisInstance,   \* colorAxisManager's axisInstance (closure variable)
    colorAxis,      \* axes.colorAxis: what colorAxisManager.init returned last
    colorResult,    \* what the last call on the color axis returned
    inits,          \* number of colorAxisManager.init calls so far
    rowProps,       \* properties of the rows of _matrix that are no array
                    \* indices (row[-1]): <<i, j>> -> value
    pc,             \* the statement of gridManager.draw to execute next
    trace,          \* the calls the current gridManager.draw has made
    bodyMetrics,    \* diParams.effectiveBodyMeasurement (a measurement object)
    translate,      \* diParams.globalTranslate
    axisData,       \* data.axis: the axis names and the color axis config
    charWidth,      \* the width measureText gives one character
    clip,           \* the running or last call of getClippedRect: its
                    \* position, arguments, locals and result
    placed,         \* per render, the stack positions its components had
                    \* when the body was translated (history)
    drawPerformed,  \* the arguments of the interactionManager.perform
                    \* calls made while an axis was drawn (history)
    view            \* what the renderer and the tracker keep and draw: the
                    \* rects of their groups and the handlers'
                    \* trackerGraphicsFn arrays

matrixVars == <<chartData, instances, axes, dataModelMatrix, dmMatrix, matrix,
                updateM, tableKeys, lookupModel, elFns, eventMap, handlers, last, evLog,
                touched, batch, renders, ops, rowProps>>
stackVars == <<masterStack, measurements, shrinks>>
colorVars == <<axisInstance, colorAxis, colorResult, inits>>
drawVars == <<pc, trace, bodyMetrics, translate, axisData, charWidth>>
extraVars == <<clip, placed, drawPerformed, view>>
otherVars == <<config, axisModels, colorVars, drawVars, extraVars>>
vars == <<chartData, instances, axes, dataModelMatrix, dmMatrix, matrix,
          updateM, tableKeys, lookupModel, elFns, eventMap, handlers, last, evLog,
          touched, batch, renders, ops, masterStack, measurements, shrinks,
          config, axisModels, axisInstance, colorAxis, colorResult, inits,
          rowProps, pc, trace, bodyMetrics, translate, axisData, charWidth,
          clip, placed, drawPerformed, view>>

\* ------------------------------------------------------------ JS values
Undefined == -1                 \* the value of a missing array element
Truthy(v) == v >= 1             \* handler ids are >= 1; 0 and undefined are falsy
EMPTY_FN == "EMPTY_FN"
DEF_FN == "DEF_FN"

\* The values a user function may return are tagged with their JS type.
JsArray(a) == [t |-> "array", v |-> a]
JsNumber(n) == [t |-> "number", v |-> n]
JsString(str) == [t |-> "string", v |-> str]
JsBoolean(b) == [t |-> "boolean", v |-> b]
JsObject == [t |-> "object", v |-> 0]
JsUndefined == [t |-> "undefined", v |-> 0]
JsNull == [t |-> "null", v |-> 0]
\* ToBoolean: undefined, null, 0, false and '' are falsy; every object is truthy
JsTruthy(val) ==
    CASE val.t = "undefined" -> FALSE
      [] val.t = "null" -> FALSE
      [] val.t = "number" -> val.v # 0
      [] val.t = "string" -> val.v # ""
      [] val.t = "boolean" -> val.v
      [] OTHER -> TRUE

\* An array indexed from 0 is held as a sequence: element k is a[k + 1].
EmptyArr == <<>>
ArrLen(a) == Len(a)
ArrGet(a, k) == IF k >= 0 /\ k < Len(a) THEN a[k + 1] ELSE Undefined
\* a[k] = v for k >= 0: an index at or past the length grows the array and
\* leaves holes, which read as undefined
ArrSet(a, k, v) ==
    IF k < Len(a) THEN [a EXCEPT ![k + 1] = v]
    ELSE a \o [m \in 1..(k - Len(a)) |-> Undefined] \o <<v>>

\* Array.prototype.indexOf: the 0-based position of the first match, or -1
IndexOf(arr, v) ==
    IF \E k \in 1..Len(arr) : arr[k] = v
    THEN (CHOOSE k \in 1..Len(arr) :
              arr[k] = v /\ \A m \in 1..(k - 1) : arr[m] # v) - 1
    ELSE -1

\* i.toString() + j
UpdateKey(i, j) == ToString(i) \o ToString(j)

\* an object used as a map: obj[k] = v
Put(f, k, v) == (k :> v) @@ f
EmptyMap == <<>>

\* ------------------------------------------------------------ axis model
X_KEY == "x"
Y_KEY == "y"

\* the rows of all series, in dataset order (lines 185-188)
RECURSIVE AllData(_)
AllData(dataset) ==
    IF dataset = <<>> THEN <<>>
    ELSE AllData(SubSeq(dataset, 1, Len(dataset) - 1))
             \o dataset[Len(dataset)].data

\* the distinct values in the order of their last occurrence
RECURSIVE ArrayFromSetLast(_)
ArrayFromSetLast(allValues) ==
    IF allValues = <<>> THEN <<>>
    ELSE LET rest == ArrayFromSetLast(Tail(allValues))
             v == Head(allValues)
         IN  IF \E k \in 1..Len(rest) : rest[k] = v THEN rest
             ELSE <<v>> \o rest

\* Array.from(new Set(allValues)): the distinct values in insertion order
RECURSIVE ArrayFromSet(_)
ArrayFromSet(allValues) ==
    IF allValues = <<>> THEN <<>>
    ELSE LET init == ArrayFromSet(SubSeq(allValues, 1, Len(allValues) - 1))
             v == allValues[Len(allValues)]
         IN  IF \E k \in 1..Len(init) : init[k] = v THEN init
             ELSE Append(init, v)

\* the user's config.model entries: functions named by what they return, and
\* NOT_A_FUNCTION for an entry that is a non-empty string
NOT_A_FUNCTION == "notAFunction"
Reverse(model) == [k \in 1..Len(model) |-> model[Len(model) + 1 - k]]
ArrayHooks == {DEF_FN, "reverse", "dropFirst", "dropLast", "empty"}
FalsyHooks == {"undefined", "null", "zero", "false", "emptyString"}
NonSequenceHooks == {"number", "string", "object", "true"}
Hooks == ArrayHooks \cup FalsyHooks \cup NonSequenceHooks

\* modelUpdateFn(model): the model hook (config.model) called on the
\* de-duplicated array; the default stub is DEF_FN, which returns its argument
ModelUpdateFn(hook, model) ==
    CASE hook = DEF_FN -> JsArray(model)
      [] hook = "reverse" -> JsArray(Reverse(model))
      [] hook = "dropFirst" -> JsArray(Tail(model))
      [] hook = "dropLast" -> JsArray(SubSeq(model, 1, Len(model) - 1))
      [] hook = "empty" -> JsArray(<<>>)
      [] hook = "undefined" -> JsUndefined
      [] hook = "null" -> JsNull
      [] hook = "zero" -> JsNumber(0)
      [] hook = "false" -> JsBoolean(FALSE)
      [] hook = "emptyString" -> JsString("")
      [] hook = "number" -> JsNumber(5)
      [] hook = "string" -> JsString("ab")
      [] hook = "object" -> JsObject
      [] hook = "true" -> JsBoolean(TRUE)

\* getNormalizedModel returning whatever the hook returned
getNormalizedModelHookOnly(dataset, conf) ==
    LET allData == AllData(dataset)
        allValues == [k \in 1..Len(allData) |-> allData[k][conf.key]]
        model == ArrayFromSet(allValues)
    IN  IF conf.model = NOT_A_FUNCTION THEN JsArray(model)
        ELSE ModelUpdateFn(conf.model, model)

\* AxisModel.prototype.getNormalizedModel: the tagged value it returns
\* (line 201: (modelUpdateFn && typeof modelUpdateFn === 'function' &&
\* modelUpdateFn(model)) || model)
getNormalizedModel(dataset, conf) ==
    LET allData == AllData(dataset)
        allValues == [k \in 1..Len(allData) |-> allData[k][conf.key]]
        model == ArrayFromSet(allValues)
        hooked == IF conf.model = NOT_A_FUNCTION THEN JsBoolean(FALSE)
                  ELSE ModelUpdateFn(conf.model, model)
    IN  IF JsTruthy(hooked) THEN hooked ELSE JsArray(model)

\* ------------------------------------------------------------ Series
\* new Series(name, conf), before it is pushed to Series.instances
Series(name, conf) ==
    [name |-> name, conf |-> conf, data |-> EmptyMap, cells |-> <<>>]

\* Series.prototype.addData: data[i][j] = row, cells.push([i, j])
addData(series, i, j, row) ==
    [series EXCEPT !.data = Put(@, <<i, j>>, row),
                   !.cells = Append(@, <<i, j>>)]

\* Series.getSeriesById: the first instance with that name, 0 for undefined
getSeriesById(insts, id) ==
    IF \E k \in 1..Len(insts) : insts[k].name = id
    THEN CHOOSE k \in 1..Len(insts) :
             insts[k].name = id /\ \A m \in 1..(k - 1) : insts[m].name # id
    ELSE 0

\* ------------------------------------------------------------ DataGraphicsHandler
DataGraphicsHandler == [series |-> <<>>]

addSeries(handler, series) == [handler EXCEPT !.series = Append(@, series)]

\* removeSeries splicing without the test for a series that was not found:
\* splice(undefined, 1) takes out the first entry
removeSeriesUnguarded(handler, seriesInstance) ==
    LET allSeries == handler.series
        seriesIndex == IndexOf(allSeries, seriesInstance) + 1
    IN  IF seriesIndex # 0
        THEN [handler EXCEPT !.series =
                 SubSeq(allSeries, 1, seriesIndex - 1)
                     \o SubSeq(allSeries, seriesIndex + 1, Len(allSeries))]
        ELSE [handler EXCEPT !.series = SubSeq(allSeries, 2, Len(allSeries))]

\* DataGraphicsHandler.prototype.removeSeries: splices out the first occurrence
removeSeries(handler, seriesInstance) ==
    LET allSeries == handler.series
        seriesIndex == IndexOf(allSeries, seriesInstance) + 1
    IN  IF seriesIndex # 0
        THEN [handler EXCEPT !.series =
                 SubSeq(allSeries, 1, seriesIndex - 1)
                     \o SubSeq(allSeries, seriesIndex + 1, Len(allSeries))]
        ELSE handler

\* ------------------------------------------------------------ color axes
DEF_COLOR == "rgba(0, 0, 0, 1)"
PERCENT_STR == "%"
NO_COLOR == "undefined"         \* colors[k] for k outside the array

\* String.prototype.toLowerCase on the type strings used here
ToLowerCase(str) ==
    CASE str \in {"series", "Series", "SERIES"} -> "series"
      [] str \in {"gradient", "GRADIENT"} -> "gradient"
      [] OTHER -> str

\* stubs.getForColorAxis: the defaults merged under the user's configuration
\* (lengths in px, widthF in percent)
ColorAxisStub ==
    [widthF |-> 50, height |-> 15, margin |-> 5,
     label |-> [margin |-> 4, fontSize |-> 9]]

\* merge(colorConfig, colorAxisData); merge(defaultColorAxisData, colorAxisData):
\* an entry the user left out (not in the record) takes the stub's value
MergedColorAxisData(colorConfig) ==
    [code |-> colorConfig.code,
     widthF |-> ColorAxisStub.widthF,
     height |-> IF "height" \in DOMAIN colorConfig THEN colorConfig.height
                ELSE ColorAxisStub.height,
     margin |-> IF "margin" \in DOMAIN colorConfig THEN colorConfig.margin
                ELSE ColorAxisStub.margin,
     label |-> ColorAxisStub.label]

\* SeriesColorAxis.prototype.extractLabelModel: the names of the series
SeriesLabelModel(data) == [index \in 1..Len(data) |-> data[index].name]

\* new SeriesColorAxis(colorAxisData, data); clickHandler is the function
\* instance.clickHandler resolves to: the one of the prototype, or the
\* instance's own one once the prototype's has run (lines 1456-1462)
SeriesColorAxis(id, colorAxisData, data) ==
    [class |-> "SeriesColorAxis", id |-> id, colorAxisData |-> colorAxisData,
     stackingOrder |-> 2, labelModel |-> SeriesLabelModel(data),
     clickHandler |-> "prototype"]

\* new GradientColorAxis(colorAxisData, data): labelModel = code.values
GradientColorAxis(id, colorAxisData, data) ==
    [class |-> "GradientColorAxis", id |-> id, colorAxisData |-> colorAxisData,
     stackingOrder |-> 2, labelModel |-> colorAxisData.code.values]

\* colorAxisManager.init: the value of axisInstance after the call, which is
\* also what the call returns
colorAxisManagerInit(instance, id, colorConfig, data) ==
    LET colorAxisData == MergedColorAxisData(colorConfig)
        type == ToLowerCase(colorAxisData.code.type)
    IN  CASE type = "series" -> SeriesColorAxis(id, colorAxisData, data)
          [] type = "gradient" -> GradientColorAxis(id, colorAxisData, data)
          [] OTHER -> instance

\* colors[k] for a 0-based k
ColorAt(colors, k) ==
    IF k >= 0 /\ k < Len(colors) THEN colors[k + 1] ELSE NO_COLOR

\* getColorBySeriesName returning colors[index] whatever it is
getColorBySeriesNameNoDefault(axis, name) ==
    LET index == IndexOf(axis.labelModel, name)
    IN  IF index # -1 THEN ColorAt(axis.colorAxisData.code.colors, index)
        ELSE DEF_COLOR

\* SeriesColorAxis.prototype.getColorBySeriesName
getColorBySeriesName(axis, name) ==
    LET labelModel == axis.labelModel
        colors == axis.colorAxisData.code.colors
        index == IndexOf(labelModel, name)
    IN  IF index # -1
        THEN (IF ColorAt(colors, index) \notin {NO_COLOR, ""}
              THEN ColorAt(colors, index) ELSE DEF_COLOR)
        ELSE DEF_COLOR

\* ColorAxisBase.prototype.getColorByDomain of a series color axis:
\* this.colorRetrieverFn is getColorBySeriesName
getColorByDomain(axis, domainValue) == getColorBySeriesName(axis, domainValue)

\* floor(index / length * 100); for the lengths used here the floating point
\* product rounds like the exact quotient
Ratio(index, length) == (index * 100) \div length

Stop(ratio, color) ==
    [offset |-> ToString(ratio) \o PERCENT_STR, stopColor |-> color, stopOpacity |-> 1]

\* the do-while loop without the increment of colorIndex
RECURSIVE DoStopsSameColor(_, _, _, _, _)
DoStopsSameColor(stops, colors, ratio, colorIndex, itr) ==
    LET pushed == Append(stops, Stop(ratio, ColorAt(colors, colorIndex)))
    IN  IF itr # 0 THEN DoStopsSameColor(pushed, colors, ratio, colorIndex, itr - 1)
        ELSE pushed

\* getStopsConfiguration: the do-while loop (lines 1420-1427); its condition
\* (colorIndex++, itr--) has the value itr had before the decrement
RECURSIVE DoStops(_, _, _, _, _)
DoStops(stops, colors, ratio, colorIndex, itr) ==
    LET pushed == Append(stops, Stop(ratio, ColorAt(colors, colorIndex)))
    IN  IF itr # 0 THEN DoStops(pushed, colors, ratio, colorIndex + 1, itr - 1)
        ELSE pushed

\* getStopsConfiguration: the loop over the label model (lines 1412-1428)
RECURSIVE StopsLoop(_, _, _, _)
StopsLoop(res, colors, index, length) ==
    IF ~(index < length) THEN res
    ELSE LET ratio == Ratio(index, length)
         IN  StopsLoop([stopsConf |-> DoStops(res.stopsConf, colors, ratio, index - 1, 1),
                        breakRatios |-> Append(res.breakRatios, ratio)],
                       colors, index + 1, length)

\* SeriesColorAxis.prototype.getStopsConfiguration
getStopsConfiguration(axis) ==
    StopsLoop([stopsConf |-> <<>>, breakRatios |-> <<>>],
              axis.colorAxisData.code.colors, 1, Len(axis.labelModel))

\* ------------------------------------------------------------ update functions
\* the functions passed to set(i, j, fn)
ZeroFn == [kind |-> "zero", series |-> 0]           \* function () { return 0; }
Callback(sid) == [kind |-> "callback", series |-> sid]  \* parse's callback

\* fn(prevVal): the returned value and the handler heap after the call
ApplyFn(fn, prevVal, heap) ==
    IF fn.kind = "zero" THEN [val |-> 0, handlers |-> heap]
    ELSE IF Truthy(prevVal)
         THEN [val |-> prevVal,
               handlers |-> [heap EXCEPT ![prevVal] = addSeries(@, fn.series)]]
         ELSE [val |-> Len(heap) + 1,
               handlers |-> Append(heap, addSeries(DataGraphicsHandler, fn.series))]

\* ------------------------------------------------------------ DataModelMatrix
\* The operations act on a record st of the objects they can change:
\* matrix, updateM, keys, handlers, instances, evLog, endFired, touched, batch,
\* props, view.

SetEvent(fn, args) ==
    [ev |-> "set", fn |-> fn, ctx |-> "", args |-> args, table |-> 0]
EndEvent(fn, ctx, table) ==
    [ev |-> "end", fn |-> fn, ctx |-> ctx, args |-> <<>>, table |-> table]

\* a call of the set listener; calls of EMPTY_FN are not recorded
CallSet(st, eSet, args) ==
    IF eSet = EMPTY_FN THEN st
    ELSE [st EXCEPT !.evLog = Append(@, SetEvent(eSet, args))]

\* DataModelMatrix.prototype.set(i, val): lines 1777-1780.  The new row has
\* none of the properties of the row it replaces.
MatrixSet2(st, i, val) ==
    [st EXCEPT !.matrix = ArrSet(@, i, val),
               !.props = IF DOMAIN @ = {} THEN @
                         ELSE [c \in {d \in DOMAIN @ : d[1] # i} |-> @[c]]]

\* matrix[i][j] of an existing row i: an array element for j >= 0, a property
\* of the row object for a negative j
RowGet(st, i, j) ==
    IF j >= 0 THEN ArrGet(ArrGet(st.matrix, i), j)
    ELSE IF <<i, j>> \in DOMAIN st.props THEN st.props[<<i, j>>]
    ELSE Undefined

\* matrix[i][j] = val
RowSet(st, i, j, val) ==
    IF j >= 0
    THEN [st EXCEPT !.matrix = ArrSet(@, i, ArrSet(ArrGet(@, i), j, val))]
    ELSE [st EXCEPT !.props = Put(@, <<i, j>>, val)]

\* set(i, j, fn) recording the cell in the table whatever the value is
MatrixSet3RecordsAlways(st, emap, i, j, fn) ==
    IF ~(i >= 0 /\ i < Len(st.matrix)) THEN [st EXCEPT !.threw = TRUE]
    ELSE
    LET prevVal == ArrGet(ArrGet(st.matrix, i), j)
        r == ApplyFn(fn, prevVal, st.handlers)
        val == r.val
        st1 == [st EXCEPT
                  !.matrix = ArrSet(@, i, ArrSet(ArrGet(@, i), j, val)),
                  !.handlers = r.handlers,
                  !.updateM = Put(@, UpdateKey(i, j), <<i, j, val>>),
                  !.keys = IF UpdateKey(i, j) \in DOMAIN st.updateM THEN @
                           ELSE Append(@, UpdateKey(i, j)),
                  !.touched = IF Truthy(val) THEN @ \cup {<<i, j>>} ELSE @,
                  !.batch = IF Truthy(val) THEN @ \cup {<<i, j>>} ELSE @]
    IN  IF emap.set = EMPTY_FN THEN st1
        ELSE [st1 EXCEPT !.evLog =
                 Append(@, [ev |-> "set", fn |-> emap.set, ctx |-> "",
                            args |-> <<i, j, val>>, table |-> 0])]

\* DataModelMatrix.prototype.set(i, j, fn): lines 1781-1796.  Reading
\* matrix[i][j] throws when row i is undefined.
MatrixSet3(st, emap, i, j, fn) ==
    IF ~(i >= 0 /\ i < ArrLen(st.matrix)) THEN [st EXCEPT !.threw = TRUE]
    ELSE
    LET prevVal == RowGet(st, i, j)
        r == ApplyFn(fn, prevVal, st.handlers)
        val == r.val
        st1 == [RowSet(st, i, j, val) EXCEPT
                  !.handlers = r.handlers,
                  !.updateM = IF Truthy(val)
                              THEN Put(@, UpdateKey(i, j), <<i, j, val>>)
                              ELSE @,
                  !.keys = IF Truthy(val) /\ UpdateKey(i, j) \notin DOMAIN st.updateM
                           THEN Append(@, UpdateKey(i, j))
                           ELSE @,
                  !.touched = IF Truthy(val) THEN @ \cup {<<i, j>>} ELSE @,
                  !.batch = IF Truthy(val) THEN @ \cup {<<i, j>>} ELSE @]
    IN  CallSet(st1, emap.set, <<i, j, val>>)

\* DataModelMatrix.prototype.get(i, j): matrix[i][j], an array element of
\* the row or, for a negative j, a property of it (lines 1818-1821)
MatrixGet(st, i, j) ==
    IF j >= 0 THEN ArrGet(ArrGet(st.matrix, i), j)
    ELSE IF <<i, j>> \in DOMAIN st.props THEN st.props[<<i, j>>]
    ELSE Undefined

\* ---- the end-listeners of gridManager.draw: the renderer and the tracker
\* st.view is what they keep and draw; st.view.axis is the color axis the
\* renderer was constructed with (options.colorAxis).

\* dataArr[i] is an object: the series has data in row i
HasRow(series, i) == \E c \in DOMAIN series.data : c[1] = i

\* Series.prototype.getSeriesData(i, j) where dataArr[i] is defined
getSeriesData(series, i, j) ==
    [name |-> series.name,
     data |-> IF <<i, j>> \in DOMAIN series.data THEN series.data[<<i, j>>]
              ELSE [x |-> Undefined, y |-> Undefined]]

\* utils.getValueByKeyChain for a chain of one key
getValueByKeyChain(obj, keychain) == obj[keychain]

\* this.key of a color axis (line 848)
AxisKey(axis) == axis.colorAxisData.code.key

\* meta.colorFn of a gradient axis, the d3 scale, left uninterpreted
ColorFn(value) == "colorFn(" \o value \o ")"

\* colorAxis.getColorByDomain as the renderer calls it, for either class
AxisColorByDomain(axis, domainValue) ==
    IF axis.class = "SeriesColorAxis" THEN getColorByDomain(axis, domainValue)
    ELSE ColorFn(domainValue)

\* the renderer taking the first series of the list
FirstSeriesIndex(dataSeries) == 0

\* seriesIndex = dataSeries.length - 1 (line 2148)
LastSeriesIndex(dataSeries) == Len(dataSeries) - 1

\* the entries of the table the renderer does not skip: the handler is
\* truthy and its series list is not empty (lines 2139-2144)
DrawnKeys(table, hs) ==
    {key \in DOMAIN table :
         /\ Truthy(table[key][3])
         /\ hs[table[key][3]].series # <<>>}

\* the series the renderer takes for an entry
LastSeries(updateArr, hs) ==
    LET dataSeries == hs[updateArr[3]].series
    IN  dataSeries[LastSeriesIndex(dataSeries) + 1]

\* the datum pushed to d3Data for an entry (lines 2151-2165): the cell and
\* the fill
Datum(updateArr, hs, insts, axis) ==
    LET i == updateArr[1]
        j == updateArr[2]
        seriesData == getSeriesData(insts[LastSeries(updateArr, hs)], i, j)
        colorDomainVal == getValueByKeyChain(seriesData, AxisKey(axis))
    IN  [i |-> i, j |-> j, fill |-> AxisColorByDomain(axis, colorDomainVal)]

\* curry(preCurriedFn) applied to (i, j) by addDSGraphicsElement: a function
\* that holds the two arguments in p and waits for the third; made is the
\* number of the renderer's draw that made it
Generator(i, j, made) == [i |-> i, j |-> j, made |-> made, p |-> <<"i", "j">>]

\* handler.trackerGraphicsFn, an empty array for a handler that has none yet
TrackerGraphicsFn(v, h) ==
    IF h \in DOMAIN v.trackerGraphicsFn THEN v.trackerGraphicsFn[h]
    ELSE EmptyMap

\* addDSGraphicsElement(seriesIndex, [i, j, curry(preCurriedFn)]) for every
\* drawn entry (line 2169)
RECURSIVE AddDSGraphicsElements(_, _, _, _, _)
AddDSGraphicsElements(fnsOf, keys, table, hs, made) ==
    IF keys = {} THEN fnsOf
    ELSE LET key == CHOOSE k \in keys : TRUE
             updateArr == table[key]
             h == updateArr[3]
             eFns == IF h \in DOMAIN fnsOf THEN fnsOf[h] ELSE EmptyMap
             index == LastSeriesIndex(hs[h].series)
         IN  AddDSGraphicsElements(
                 Put(fnsOf, h, Put(eFns, index,
                                   Generator(updateArr[1], updateArr[2], made))),
                 keys \ {key}, table, hs, made)

\* a key that is an array index ("10", "110"): i has no leading zero and
\* neither i nor j a sign
IsIndexKey(updateArr) == updateArr[1] >= 1 /\ updateArr[2] >= 0

\* the number such a key is read as
KeyNumber(updateArr) ==
    LET j == updateArr[2]
    IN  updateArr[1] * (IF j < 10 THEN 10 ELSE IF j < 100 THEN 100 ELSE 1000) + j

RECURSIVE Ascending(_, _)
Ascending(keys, table) ==
    IF keys = {} THEN <<>>
    ELSE LET first == CHOOSE k \in keys :
                          \A m \in keys : KeyNumber(table[k]) <= KeyNumber(table[m])
         IN  <<first>> \o Ascending(keys \ {first}, table)

\* for (index in updateMatrix): the keys that are array indices in
\* ascending order, then the others in the order they were created
ForIn(st) ==
    LET table == st.updateM
        IsOther(key) == ~IsIndexKey(table[key])
    IN  Ascending({key \in DOMAIN table : IsIndexKey(table[key])}, table)
            \o SelectSeq(st.keys, IsOther)

\* lastSeries.getSeriesData(i, j) throws a TypeError: the entry is drawn and
\* its series has no data in row i (dataArr[i] is undefined, line 782)
Throws(st, key) ==
    /\ key \in DrawnKeys(st.updateM, st.handlers)
    /\ ~HasRow(st.instances[LastSeries(st.updateM[key], st.handlers)],
               st.updateM[key][1])

\* the inner draw of the DatasetRenderer (lines 2102-2175): d3Data gets one
\* datum per entry that is not skipped and the handler of the entry a new
\* generator at the index of its last series; the join leaves the group
\* with one rect per datum.  rects maps a datum to the number of its rects.
\* An entry that throws ends the draw before the join, with the generators
\* of the entries before it added.
RendererDraw(st) ==
    LET table == st.updateM
        hs == st.handlers
        axis == st.view.axis
        made == st.view.draws + 1
        drawn == DrawnKeys(table, hs)
    IN  IF \E key \in drawn : Throws(st, key)
        THEN LET order == ForIn(st)
                 stop == CHOOSE k \in 1..Len(order) :
                             /\ Throws(st, order[k])
                             /\ \A m \in 1..(k - 1) : ~Throws(st, order[m])
                 keys == {order[k] : k \in 1..(stop - 1)} \cap drawn
             IN  [st EXCEPT
                    !.threw = TRUE,
                    !.view.draws = made,
                    !.view.trackerGraphicsFn =
                        AddDSGraphicsElements(@, keys, table, hs, made)]
        ELSE LET d3Data == {Datum(table[key], hs, st.instances, axis) :
                                key \in drawn}
             IN  [st EXCEPT
                    !.view.draws = made,
                    !.view.rects =
                        [d \in d3Data |->
                            Cardinality({key \in drawn :
                                Datum(table[key], hs, st.instances, axis) = d})],
                    !.view.trackerGraphicsFn =
                        AddDSGraphicsElements(@, drawn, table, hs, made)]

\* a generator called with the tracker's group: the argument joins p, and
\* with three arguments held p is emptied and preCurriedFn applied
\* (lines 2868-2886)
Called(gen) ==
    IF Len(gen.p) + 1 >= 3 THEN [gen EXCEPT !.p = <<>>]
    ELSE [gen EXCEPT !.p = Append(@, "group")]

\* the rect a call appends to the tracker's group, if any: the one of the
\* generator's cell when p held i and j, and one with the group for its
\* coordinates when p held earlier groups
CalledRect(gen, index) ==
    IF Len(gen.p) + 1 < 3 THEN {}
    ELSE {[kind |-> IF gen.p = <<"i", "j">> THEN "cell" ELSE "NaN",
           i |-> gen.i, j |-> gen.j, index |-> index]}

\* the cells of the matrix the tracker walks (lines 1996-1997, 2012-2014)
MatrixCells(m) ==
    {<<i, j>> : i \in 0..(ArrLen(m) - 1), j \in 0..(ArrLen(ArrGet(m, 0)) - 1)}

\* the inner draw of the TrackerModel (lines 1994-2033).  On a matrix
\* without rows dataModelMatrix.get(0).length throws a TypeError.
\* Otherwise the rects of the group are removed; every generator of the
\* handler of every occupied cell is called (autoTrackerExecutor), an empty
\* cell gets a rect of its own
TrackerDraw(st) ==
    IF ArrLen(st.matrix) = 0 THEN [st EXCEPT !.threw = TRUE]
    ELSE
    LET v == st.view
        cells == MatrixCells(st.matrix)
        occupied == {c \in cells : Truthy(MatrixGet(st, c[1], c[2]))}
        called == {MatrixGet(st, c[1], c[2]) : c \in occupied}
        eFns == UNION {{<<h, index>> : index \in DOMAIN TrackerGraphicsFn(v, h)} :
                           h \in called}
        eFn(e) == v.trackerGraphicsFn[e[1]][e[2]]
    IN  [st EXCEPT
           !.view.reads =
               {[handler |-> e[1], index |-> e[2], made |-> eFn(e).made] :
                    e \in eFns},
           !.view.trackers =
               UNION {CalledRect(eFn(e), e[2]) : e \in eFns}
               \cup {[kind |-> "empty", i |-> c[1], j |-> c[2], index |-> 0] :
                         c \in cells \ occupied},
           !.view.trackerGraphicsFn =
               [h \in DOMAIN @ |->
                    IF h \in called
                    THEN [index \in DOMAIN @[h] |-> Called(@[h][index])]
                    ELSE @[h]]]

\* one call of the composite handler, fn[0].call(fn[1], updateM): recorded,
\* and the renderer or the tracker draws
ListenerDraws(st, call) ==
    LET st1 == [st EXCEPT !.evLog = Append(@, call)]
    IN  CASE call.fn = "renderer.draw" -> RendererDraw(st1)
          [] call.fn = "tracker.draw" -> TrackerDraw(st1)
          [] OTHER -> st1

\* the calls of the composite handler in turn; a listener that throws ends
\* them
RECURSIVE EndDraws(_, _, _)
EndDraws(st, calls, k) ==
    IF k > Len(calls) \/ st.threw THEN st
    ELSE EndDraws(ListenerDraws(st, calls[k]), calls, k + 1)

\* the composite end handler installed by onEnd (lines 1732-1743): the calls
\* it makes, one per listener of _elFns, in order, with the table captured
\* at registration
RECURSIVE CallListeners(_, _, _, _)
CallListeners(log, fns, table, fnIndex) ==
    IF fnIndex > Len(fns) THEN log
    ELSE CallListeners(Append(log, EndEvent(fns[fnIndex][1], fns[fnIndex][2], table)),
                       fns, table, fnIndex + 1)

\* fireEvent with the table emptied once the end listeners have run
fireEventDraining(st, emap, fns, eventName) ==
    IF eventName = "end"
    THEN LET st1 == [st EXCEPT
                       !.endFired = Append(@, [table |-> st.updateM,
                                               handlers |-> st.handlers,
                                               touched |-> st.touched,
                                               batch |-> st.batch]),
                       !.batch = {}]
             st2 == IF emap.end.kind = "composite"
                    THEN EndDraws(st1, CallListeners(<<>>, fns, emap.end.updateM, 1), 1)
                    ELSE st1
         IN  [st2 EXCEPT !.updateM = EmptyMap, !.keys = <<>>]
    ELSE st

\* DataModelMatrix.prototype.fireEvent: this.eventMap[eventName](); the end
\* handler is EMPTY_FN or the composite one, whose listeners run inside the
\* call
fireEvent(st, emap, fns, eventName) ==
    IF eventName = "end"
    THEN LET st1 == [st EXCEPT
                       !.endFired = Append(@, [table |-> st.updateM,
                                               handlers |-> st.handlers,
                                               touched |-> st.touched,
                                               batch |-> st.batch]),
                       !.batch = {}]
         IN  IF emap.end.kind = "composite"
             THEN EndDraws(st1, CallListeners(<<>>, fns, emap.end.updateM, 1), 1)
             ELSE st1
    ELSE IF emap[eventName] = EMPTY_FN THEN st
         ELSE [st EXCEPT !.evLog =
                  Append(@, [SetEvent(emap[eventName], <<>>) EXCEPT !.ev = eventName])]

\* DataModelMatrix.prototype.unset: the loop over series.cells (lines 1833-1839).
\* A cell without an entry in the table makes updateM[key][2] throw.
RECURSIVE UnsetCells(_, _, _, _)
UnsetCells(st, sid, cells, k) ==
    IF k > Len(cells) THEN st
    ELSE LET key == UpdateKey(cells[k][1], cells[k][2])
         IN  IF key \notin DOMAIN st.updateM THEN [st EXCEPT !.threw = TRUE]
             ELSE LET dgHandler == st.updateM[key][3]
                  IN  UnsetCells([st EXCEPT !.handlers[dgHandler] =
                                               removeSeries(@, sid)],
                                 sid, cells, k + 1)

\* unset with the end event fired inside the loop, once per cell
RECURSIVE UnsetCellsFiring(_, _, _, _, _, _)
UnsetCellsFiring(st, emap, fns, sid, cells, k) ==
    IF k > Len(cells) THEN st
    ELSE LET key == UpdateKey(cells[k][1], cells[k][2])
         IN  IF key \notin DOMAIN st.updateM THEN [st EXCEPT !.threw = TRUE]
             ELSE LET dgHandler == st.updateM[key][3]
                      st1 == [st EXCEPT !.handlers[dgHandler] = removeSeries(@, sid)]
                  IN  UnsetCellsFiring(fireEvent(st1, emap, fns, "end"),
                                       emap, fns, sid, cells, k + 1)

unsetEndPerCell(st, emap, fns, sid) ==
    IF sid = 0 THEN [st EXCEPT !.threw = TRUE]
    ELSE UnsetCellsFiring(st, emap, fns, sid, st.instances[sid].cells, 1)

\* DataModelMatrix.prototype.unset(series); series = 0 is undefined, whose
\* .cells throws
unset(st, emap, fns, sid) ==
    IF sid = 0 THEN [st EXCEPT !.threw = TRUE]
    ELSE LET st1 == UnsetCells(st, sid, st.instances[sid].cells, 1)
         IN  IF st1.threw THEN st1 ELSE fireEvent(st1, emap, fns, "end")

\* DataModelMatrix.prototype.onEnd: pushes the pair and installs the composite
\* handler, which closes over _elFns and over the table object
onEnd(emap, fns, table, fn, context) ==
    [elFns |-> Append(fns, <<fn, context>>),
     eventMap |-> [emap EXCEPT !.end = [kind |-> "composite", updateM |-> table]]]

\* DataModelMatrix.prototype.addModelUpdateListener; "" is an absent entry
addModelUpdateListener(emap, eSet, eUnset) ==
    [emap EXCEPT !.set = IF eSet # "" THEN eSet ELSE @,
                 !.unset = IF eUnset # "" THEN eUnset ELSE @]

\* the eventMap of a new DataModelMatrix
DefaultEventMap ==
    [set |-> EMPTY_FN, unset |-> EMPTY_FN, end |-> [kind |-> EMPTY_FN, updateM |-> 0]]

\* ------------------------------------------------------------ DatasetParser
\* getDataModelMatrix: the inner loop over the row model (lines 2226-2229),
\* for j = lo..hi in ascending order (evaluated by halves to bound the depth
\* of the evaluation)
RECURSIVE InitCells(_, _, _, _, _)
InitCells(st, emap, i, lo, hi) ==
    IF lo > hi THEN st
    ELSE IF lo = hi THEN MatrixSet3(st, emap, i, lo, ZeroFn)
    ELSE LET mid == (lo + hi) \div 2
             st1 == InitCells(st, emap, i, lo, mid)
         IN  IF st1.threw THEN st1 ELSE InitCells(st1, emap, i, mid + 1, hi)

\* getDataModelMatrix: the outer loop over the column model (lines 2223-2230),
\* for i = lo..hi in ascending order
RECURSIVE InitRows(_, _, _, _, _)
InitRows(st, emap, lo, hi, lj) ==
    IF lo > hi THEN st
    ELSE IF lo = hi
         THEN InitCells(MatrixSet2(st, lo, EmptyArr), emap, lo, 0, lj - 1)
    ELSE LET mid == (lo + hi) \div 2
             st1 == InitRows(st, emap, lo, mid, lj)
         IN  IF st1.threw THEN st1 ELSE InitRows(st1, emap, mid + 1, hi, lj)

\* DatasetParser.prototype.getDataModelMatrix(rowModel, colModel)
getDataModelMatrix(st, emap, rowModel, colModel) ==
    InitRows([st EXCEPT !.lookupModel = @ \o <<colModel, rowModel>>],
             emap, 0, Len(colModel) - 1, Len(rowModel))

\* the loop over the rows with the two lookups exchanged
RECURSIVE ParseRowsSwapped(_, _, _, _, _)
ParseRowsSwapped(st, emap, series, data, setIndex) ==
    IF setIndex > Len(data) THEN st
    ELSE LET set == data[setIndex]
             i == IndexOf(st.lookupModel[2], set[X_KEY])
             j == IndexOf(st.lookupModel[1], set[Y_KEY])
             st1 == [st EXCEPT !.instances[series] = addData(@, i, j, set)]
             st2 == MatrixSet3(st1, emap, i, j, Callback(series))
         IN  IF st2.threw THEN st2
             ELSE ParseRowsSwapped(st2, emap, series, data, setIndex + 1)

\* parse: the loop over the rows of one series (lines 2281-2291)
RECURSIVE ParseRows(_, _, _, _, _)
ParseRows(st, emap, series, data, setIndex) ==
    IF setIndex > Len(data) THEN st
    ELSE LET set == data[setIndex]
             i == IndexOf(st.lookupModel[1], set[Y_KEY])
             j == IndexOf(st.lookupModel[2], set[X_KEY])
             st1 == [st EXCEPT !.instances[series] = addData(@, i, j, set)]
             st2 == MatrixSet3(st1, emap, i, j, Callback(series))
         IN  IF st2.threw THEN st2
             ELSE ParseRows(st2, emap, series, data, setIndex + 1)

\* parse: the loop over the series of the dataset (lines 2273-2292)
RECURSIVE ParseSeries(_, _, _, _)
ParseSeries(st, emap, dataset, index) ==
    IF index > Len(dataset) THEN st
    ELSE LET thisDataset == dataset[index]
             series == Len(st.instances) + 1
             st1 == [st EXCEPT !.instances =
                        Append(@, Series(thisDataset.name, thisDataset.style))]
             st2 == ParseRows(st1, emap, series, thisDataset.data, 1)
         IN  IF st2.threw THEN st2
             ELSE ParseSeries(st2, emap, dataset, index + 1)

\* DatasetParser.prototype.parse
parse(st, emap, fns, dataset) ==
    LET st1 == ParseSeries(st, emap, dataset, 1)
    IN  IF st1.threw THEN st1 ELSE fireEvent(st1, emap, fns, "end")

\* ------------------------------------------------------------ inputs
FRAME_NAME == "F"
SeriesName(k) == "S" \o ToString(k)

\* the frame series: n rows on the diagonal, which give both axis models the
\* values 0..n-1 in this order
FrameSeries(n) ==
    [name |-> FRAME_NAME, style |-> "plain",
     data |-> [k \in 1..n |-> [x |-> k - 1, y |-> k - 1]]]

\* the rows of the free series
RowPool == {[x |-> 10, y |-> 1], [x |-> 0, y |-> 11], [x |-> 0, y |-> 0]}

RowSeqs == UNION {[1..n -> RowPool] : n \in 0..MaxRows}

FreeSeries(k, rows) == [name |-> SeriesName(k), style |-> "plain", data |-> rows]

FreeParts ==
    UNION {{[k \in 1..n |-> FreeSeries(k, rs[k])] : rs \in [1..n -> RowSeqs]}
               : n \in 1..MaxSeries}

\* a frame series of 0 or Wide rows followed by the free series; a dataset
\* has at least one row
DataSets ==
    {ds \in {<<FrameSeries(n)>> \o free : n \in {0, Wide}, free \in FreeParts} :
         AllData(ds) # <<>>}

\* one free series per dataset
MatrixData == {ds \in DataSets : Len(ds) = 2}

\* one free series and no frame
HookData == {ds \in MatrixData : ds[1].data = <<>>}

\* the axis config: the stub's model entry is DEF_FN (line 2735)
DefaultConfig == [x |-> DEF_FN, y |-> DEF_FN]
AxisConfig(key) == [key |-> key, model |-> config[key]]

\* ------------------------------------------------------------ state
NoOp == [op |-> "none", name |-> "", sid |-> 0, i |-> 0, j |-> 0,
         fn |-> ZeroFn, prev |-> 0, threw |-> FALSE, endFired |-> <<>>]

\* the objects the matrix operations and the end-listeners act on, as a
\* record
Pack ==
    [matrix |-> matrix, updateM |-> updateM, keys |-> tableKeys,
     handlers |-> handlers, instances |-> instances,
     lookupModel |-> lookupModel, evLog |-> <<>>, endFired |-> <<>>,
     touched |-> touched, batch |-> batch, threw |-> FALSE,
     props |-> rowProps, view |-> view]

\* the objects of a new DataModelMatrix (gridManager.init, line 2516)
NewMatrix ==
    [matrix |-> EmptyArr, updateM |-> EmptyMap, keys |-> <<>>,
     handlers |-> <<>>, instances |-> instances, lookupModel |-> <<>>,
     evLog |-> <<>>, endFired |-> <<>>, touched |-> {}, batch |-> {},
     threw |-> FALSE, props |-> EmptyMap, view |-> view]

Unpack(st) ==
    /\ matrix' = st.matrix
    /\ updateM' = st.updateM
    /\ tableKeys' = st.keys
    /\ handlers' = st.handlers
    /\ instances' = st.instances
    /\ lookupModel' = st.lookupModel
    /\ evLog' = st.evLog
    /\ touched' = st.touched
    /\ batch' = st.batch
    /\ rowProps' = st.props
    /\ view' = st.view

MatrixInit ==
    /\ instances = <<>>
    /\ axes = [x |-> <<>>, y |-> <<>>]
    /\ dataModelMatrix = 0
    /\ dmMatrix = 0
    /\ matrix = EmptyArr
    /\ updateM = EmptyMap
    /\ tableKeys = <<>>
    /\ lookupModel = <<>>
    /\ elFns = <<>>
    /\ eventMap = DefaultEventMap
    /\ handlers = <<>>
    /\ last = NoOp
    /\ evLog = <<>>
    /\ touched = {}
    /\ batch = {}
    /\ renders = 0
    /\ ops = 0
    /\ rowProps = EmptyMap

StackInit ==
    /\ masterStack = [V |-> <<>>, H |-> <<>>]
    /\ measurements = <<>>
    /\ shrinks = 0

NoModels == [x |-> JsUndefined, y |-> JsUndefined]

\* no color axis instance: var axisInstance; (line 814)
NoAxis == [class |-> "undefined", id |-> 0]

ColorInit ==
    /\ axisInstance = NoAxis
    /\ colorAxis = NoAxis
    /\ colorResult = ""
    /\ inits = 0

\* data.axis of the chart: the axes without a name and a series color axis
\* that takes the stub's margin
DefaultAxisData ==
    [x |-> [name |-> ""], y |-> [name |-> ""],
     color |-> [code |-> [key |-> "name", type |-> "series",
                          colors |-> <<"color1", "color2">>,
                          values |-> <<0, 100>>]]]

DrawInit ==
    /\ pc = "idle"
    /\ trace = <<>>
    /\ bodyMetrics = 0
    /\ translate = [x |-> 0, y |-> 0]
    /\ axisData = DefaultAxisData
    /\ charWidth = 55

\* no call of getClippedRect yet
NoClip ==
    [pc |-> "idle", breaks |-> [defined |-> FALSE, halves |-> 0],
     refRect |-> [x |-> 0, y |-> 0, width |-> 0, height |-> 0],
     ratios |-> <<>>, i |-> 0, breakRatios |-> <<>>, beyond |-> 0,
     meta |-> <<>>, url |-> "", rects |-> <<>>, stops |-> <<>>]

\* the renderer and the tracker before their first draw
NoView ==
    [draws |-> 0, rects |-> <<>>, trackerGraphicsFn |-> <<>>, reads |-> {},
     trackers |-> {}, legend |-> {}, axis |-> NoAxis]

ExtraInit ==
    /\ clip = NoClip
    /\ placed = <<>>
    /\ drawPerformed = <<>>
    /\ view = NoView

OtherInit ==
    /\ config = DefaultConfig
    /\ axisModels = NoModels
    /\ ColorInit
    /\ DrawInit
    /\ ExtraInit

\* ------------------------------------------------------------ numbers
\* A length is a whole number of tenths of a px, or one of the three values
\* of a JS number that are no length.
\* stands for Number.NEGATIVE_INFINITY: below every length that occurs;
\* 0 - NEGATIVE_INFINITY stands for Infinity
NEGATIVE_INFINITY == 0 - 1000000

\* stands for NaN
NaN == NEGATIVE_INFINITY - 1

\* a number that is neither an infinity nor NaN
Finite(v) == v \notin {NEGATIVE_INFINITY, 0 - NEGATIVE_INFINITY, NaN}

\* a + b of JS numbers: NaN for a NaN operand and for Infinity + -Infinity,
\* the infinity for an infinite operand
Plus(a, b) ==
    IF a = NaN \/ b = NaN THEN NaN
    ELSE IF ~Finite(a) THEN (IF Finite(b) \/ b = a THEN a ELSE NaN)
    ELSE IF ~Finite(b) THEN b
    ELSE a + b

\* a - b of JS numbers
Minus(a, b) == IF b = NaN THEN NaN ELSE Plus(a, 0 - b)

\* ------------------------------------------------------------ componentStackManager
VERTICAL == "V"
HORIZONTAL == "H"

\* new StackOrder(instance, measurement); measurement is a reference
StackOrder(instance, measurement) ==
    [instance |-> instance, measurement |-> measurement, pos |-> 0]

\* Array.prototype.splice(i, 0, item): a negative start counts from the end,
\* a start past the end appends
Splice(arr, i, item) ==
    LET n == Len(arr)
        start == IF i < 0 THEN (IF n + i < 0 THEN 0 ELSE n + i)
                 ELSE (IF i > n THEN n ELSE i)
    IN  SubSeq(arr, 1, start) \o <<item>> \o SubSeq(arr, start + 1, n)

MeasurementKey(stackName) == IF stackName = VERTICAL THEN "height" ELSE "width"

\* cumulativeSum before the entry at 1-based position k (lines 2463-2467)
RECURSIVE CumulativeSum(_, _, _, _)
CumulativeSum(rStack, heap, measurementKey, k) ==
    IF k <= 1 THEN 0
    ELSE Plus(CumulativeSum(rStack, heap, measurementKey, k - 1),
              heap[rStack[k - 1].measurement][measurementKey])

\* Reposition with the sum taken after the entry's own size is added
RepositionInclusive(rStack, heap, measurementKey) ==
    [k \in 1..Len(rStack) |->
        [rStack[k] EXCEPT !.pos =
            IF k - 1 # 0 THEN CumulativeSum(rStack, heap, measurementKey, k + 1)
            ELSE 0]]

\* the loop of placeInStack that assigns every entry's pos
Reposition(rStack, heap, measurementKey) ==
    [k \in 1..Len(rStack) |->
        [rStack[k] EXCEPT !.pos =
            IF k - 1 # 0 THEN CumulativeSum(rStack, heap, measurementKey, k)
            ELSE 0]]

\* componentStackManager.placeInStack(stackName, i)(instance, measurement)
placeInStack(stacks, heap, stackName, i, instance, measurement) ==
    LET rStack == Splice(stacks[stackName], i, StackOrder(instance, measurement))
    IN  [stacks EXCEPT ![stackName] =
            Reposition(rStack, heap, MeasurementKey(stackName))]

StackNames == {VERTICAL, HORIZONTAL}
\* the order indices the components use (0, 1, 2), one past them and a
\* negative one
StackIndices == {0 - 1, 0, 1, 2, 3}
\* the component that owns measurement object k
Component(k) == "component" \o ToString(k)
Placed == Len(masterStack[VERTICAL]) + Len(masterStack[HORIZONTAL])

\* the measurement objects the callers construct: the axes pass an object
\* with the one key of their stack, the grid body one with both keys
NewMeasurements(stackName) ==
    {(MeasurementKey(stackName) :> size) : size \in 0..MaxSize}
        \cup {("width" :> size) @@ ("height" :> size) : size \in 1..MaxSize}

\* placeInStack(stackName, i)(instance, m) with a measurement object m
\* constructed for the call
PlaceNew(stackName, i, m) ==
    /\ Placed < MaxStack
    /\ measurements' = Append(measurements, m)
    /\ masterStack' = placeInStack(masterStack, measurements', stackName, i,
                                   Component(Len(measurements')),
                                   Len(measurements'))
    /\ last' = [NoOp EXCEPT !.op = "placeInStack", !.name = stackName, !.i = i]
    /\ UNCHANGED <<chartData, instances, axes, dataModelMatrix, dmMatrix, matrix,
                   updateM, tableKeys, lookupModel, elFns, eventMap, handlers, evLog,
                   touched, batch, renders, ops, rowProps, shrinks, otherVars>>

\* placeInStack(stackName, i)(instance, m) with a measurement object that
\* another entry already refers to (the body's, placed in both stacks)
PlaceShared(stackName, i, measurement) ==
    /\ Placed < MaxStack
    /\ MeasurementKey(stackName) \in DOMAIN measurements[measurement]
    /\ masterStack' = placeInStack(masterStack, measurements, stackName, i,
                                   Component(measurement), measurement)
    /\ last' = [NoOp EXCEPT !.op = "placeInStack", !.name = stackName, !.i = i]
    /\ UNCHANGED <<chartData, instances, axes, dataModelMatrix, dmMatrix, matrix,
                   updateM, tableKeys, lookupModel, elFns, eventMap, handlers, evLog,
                   touched, batch, renders, ops, rowProps, measurements,
                   shrinks, otherVars>>

\* allocateComponentSpace of an axis (lines 318-322, 562-566, 882-888) on
\* the measurement object it was handed: measurement[key] -= reduction, then
\* placeInStack(stackName, i)(this, {key: size}) with a measurement object of
\* its own, key being the key of the stack.  The X and the Y axis reduce by
\* the size they reserve, the color axis by that size and its margin.
AllocateComponentSpace(stackName, i, measurement, size, margin) ==
    /\ Placed < MaxStack
    /\ shrinks < MaxShrink
    /\ MeasurementKey(stackName) \in DOMAIN measurements[measurement]
    /\ LET key == MeasurementKey(stackName)
           reduced == [measurements EXCEPT
                          ![measurement][key] = Minus(@, Plus(size, margin))]
       IN  /\ measurements' = Append(reduced, key :> size)
           /\ masterStack' = placeInStack(masterStack, measurements', stackName, i,
                                          Component(Len(measurements')),
                                          Len(measurements'))
    /\ shrinks' = shrinks + 1
    /\ last' = [NoOp EXCEPT !.op = "placeInStack", !.name = stackName, !.i = i]
    /\ UNCHANGED <<chartData, instances, axes, dataModelMatrix, dmMatrix, matrix,
                   updateM, tableKeys, lookupModel, elFns, eventMap, handlers, evLog,
                   touched, batch, renders, ops, rowProps, otherVars>>

StackNext ==
    \/ \E stackName \in StackNames, i \in StackIndices :
           \E m \in NewMeasurements(stackName) : PlaceNew(stackName, i, m)
    \/ \E stackName \in StackNames, i \in StackIndices :
           \E measurement \in 1..Len(measurements) :
               PlaceShared(stackName, i, measurement)
    \/ \E stackName \in StackNames, i \in StackIndices :
           \E measurement \in 1..Len(measurements), size \in 0..MaxSize,
              margin \in {0, 1} :
               AllocateComponentSpace(stackName, i, measurement, size, margin)

StackInitial ==
    /\ chartData = <<>>
    /\ MatrixInit
    /\ StackInit
    /\ OtherInit

SpecStack == StackInitial /\ [][StackNext]_vars

\* ------------------------------------------------------------ axis models with hooks
\* new AxisModel(...): this.model = this.getNormalizedModel(data) (line 156)
NewAxisModel(key) ==
    /\ axisModels[key].t = "undefined"
    /\ axisModels' = [axisModels EXCEPT
                         ![key] = getNormalizedModel(chartData, AxisConfig(key))]
    /\ last' = [NoOp EXCEPT !.op = "axisModel", !.name = key]
    /\ UNCHANGED <<chartData, instances, axes, dataModelMatrix, dmMatrix, matrix,
                   updateM, tableKeys, lookupModel, elFns, eventMap, handlers, evLog,
                   touched, batch, renders, ops, rowProps, stackVars, config,
                   colorVars, drawVars, extraVars>>

ModelNext == \E key \in {X_KEY, Y_KEY} : NewAxisModel(key)

ModelInitial ==
    /\ chartData \in MatrixData
    /\ MatrixInit
    /\ StackInit
    /\ config \in [{X_KEY, Y_KEY} -> Hooks \cup {NOT_A_FUNCTION}]
    /\ axisModels = NoModels
    /\ ColorInit
    /\ DrawInit
    /\ ExtraInit

SpecModel == ModelInitial /\ [][ModelNext]_vars

\* ------------------------------------------------------------ color axis operations
\* the inputs: series named S1..Sn, code.colors of 0..MaxColors colors, the
\* code.type strings, and the names asked for
ColorData ==
    {[k \in 1..n |-> FreeSeries(k, <<>>)] : n \in 0..(MaxSeries + 1)}
ColorLists ==
    {[k \in 1..n |-> "color" \o ToString(k)] : n \in 0..MaxColors}
ColorTypes == {"series", "Series", "gradient", "GRADIENT", "pie", ""}
ColorConfigs ==
    {[code |-> [key |-> "name", type |-> type, colors |-> colors, values |-> <<0, 100>>]] :
         type \in ColorTypes, colors \in ColorLists}
DomainValues == {SeriesName(k) : k \in 1..(MaxSeries + 2)} \cup {"", "s1"}

\* axes.colorAxis = colorAxisManager.init(data.axis.color, data) (line 2562)
ColorAxisManagerInit(colorConfig) ==
    /\ inits < MaxInits
    /\ axisInstance' = colorAxisManagerInit(axisInstance, inits + 1, colorConfig,
                                            chartData)
    /\ colorAxis' = axisInstance'
    /\ inits' = inits + 1
    /\ colorResult' = ""
    /\ last' = [NoOp EXCEPT !.op = "colorAxisManager.init",
                            !.name = colorConfig.code.type]
    /\ UNCHANGED <<chartData, instances, axes, dataModelMatrix, dmMatrix, matrix,
                   updateM, tableKeys, lookupModel, elFns, eventMap, handlers, evLog,
                   touched, batch, renders, ops, rowProps, stackVars, config,
                   axisModels, drawVars, extraVars>>

\* colorAxis.getColorByDomain(domainValue) on a series color axis
GetColorByDomain(domainValue) ==
    /\ colorAxis.class = "SeriesColorAxis"
    /\ colorResult' = getColorByDomain(colorAxis, domainValue)
    /\ last' = [NoOp EXCEPT !.op = "getColorByDomain", !.name = domainValue]
    /\ UNCHANGED <<chartData, instances, axes, dataModelMatrix, dmMatrix, matrix,
                   updateM, tableKeys, lookupModel, elFns, eventMap, handlers, evLog,
                   touched, batch, renders, ops, rowProps, stackVars, config,
                   axisModels, axisInstance, colorAxis, inits, drawVars, extraVars>>

\* colorAxis.getStopsConfiguration() on a series color axis
GetStopsConfiguration ==
    /\ colorAxis.class = "SeriesColorAxis"
    /\ colorResult' = getStopsConfiguration(colorAxis)
    /\ last' = [NoOp EXCEPT !.op = "getStopsConfiguration"]
    /\ UNCHANGED <<chartData, instances, axes, dataModelMatrix, dmMatrix, matrix,
                   updateM, tableKeys, lookupModel, elFns, eventMap, handlers, evLog,
                   touched, batch, renders, ops, rowProps, stackVars, config,
                   axisModels, axisInstance, colorAxis, inits, drawVars, extraVars>>

ColorNext ==
    \/ \E colorConfig \in ColorConfigs : ColorAxisManagerInit(colorConfig)
    \/ \E domainValue \in DomainValues : GetColorByDomain(domainValue)
    \/ GetStopsConfiguration

ColorInitial ==
    /\ chartData \in ColorData
    /\ MatrixInit
    /\ StackInit
    /\ config = DefaultConfig
    /\ axisModels = NoModels
    /\ ColorInit
    /\ DrawInit
    /\ ExtraInit

SpecColor == ColorInitial /\ [][ColorNext]_vars

\* ------------------------------------------------------------ createClipRect
\* Ratios are in units of 1/RatioScale percent and the lengths of the clip
\* rects in units of 1/RatioScale px, which keeps max / breaks exact for
\* every noOfBreaks that is a multiple of one half up to 5, whole or not,
\* and for 6, 7, 9 and 10.  noOfBreaks is kept in halves, so that 2.5 is a
\* value: [defined |-> TRUE, halves |-> 5].
RatioScale == 1260

\* colorAxisData.axis.axisBreak of the stub (px)
AxisBreak == 6

\* !(breaks && breaks - 1): undefined, 0 and 1 are not valid
ValidBreaks(breaks) == breaks.defined /\ breaks.halves # 0 /\ breaks.halves # 2

\* i !== breaks
NotBreaks(i, breaks) == 2 * i # breaks.halves

\* sectionSpread = max / breaks
SectionSpread(max, breaks) == (2 * max) \div breaks.halves

\* GradientColorAxis.prototype.getStopsConfiguration: breakRatios, the
\* values brought to 0..100
GradientBreakRatios(values) ==
    LET min == values[1]
        max == values[Len(values)]
    IN  [index \in 1..Len(values) |->
            ((values[index] - min) * 100 * RatioScale) \div (max - min)]

\* width * ratio / 100 (line 2978) of a length and a ratio in units of
\* 1/RatioScale percent, which is width * ratio \div (100 * RatioScale):
\* the quotient is put together from the parts of width and ratio, whose
\* products stay within the 32-bit integers where width * ratio does not
RatioOf(width, ratio) ==
    LET c == 100 * RatioScale
        x == (width % c) * (ratio \div RatioScale)
        y == (width % c) * (ratio % RatioScale)
    IN  (width \div c) * ratio + x \div 100
            + ((x % 100) * RatioScale + y) \div c

\* miniSvgDefsManager.createClipRect, isHorizontal: the loop over the ratios
\* (lines 2971-2988); ratios[index - 1] || 0 is 0 for the first
RECURSIVE ClipRects(_, _, _, _, _)
ClipRects(rects, cRefRect, ratios, tolerance, index) ==
    IF index > Len(ratios) THEN rects
    ELSE LET before == IF index > 1 THEN ratios[index - 1] ELSE 0
             width == RatioOf(cRefRect.width, ratios[index] - before)
             clipRect == [cRefRect EXCEPT !.x = @ + tolerance,
                                          !.width = width - tolerance]
         IN  ClipRects(Append(rects, clipRect),
                       [cRefRect EXCEPT !.x = @ + width],
                       ratios, tolerance, index + 1)

\* createClipRect('color-axis-clip', true, options): the rects of the clip
\* path; ratios.push(100) comes first
createClipRect(options) ==
    ClipRects(<<>>, options.refRect,
              Append(options.ratios, 100 * RatioScale), options.tolerance, 1)

\* the reference rect of ColorAxisBase.prototype.draw, in scaled units
RefRect(width) ==
    [x |-> (width \div 2) * RatioScale, y |-> 5 * RatioScale,
     width |-> width * RatioScale, height |-> 15 * RatioScale]

\* ------------------------------------------------------------ gridManager.draw
\* Lengths are in tenths of a px.
Px(n) == n * 10

\* Math.ceil of a length; an infinity and NaN are their own ceiling
ceil(v) == IF Finite(v) THEN ((v + 9) \div 10) * 10 ELSE v

\* stubs.getForGridMap: the chart's size and margins (px)
GridMapStub ==
    [height |-> 600, width |-> 850,
     margin |-> [top |-> 10, right |-> 10, bottom |-> 10, left |-> 10]]

\* stubs.getForAxis: label and name margins and font sizes (px)
AxisStub ==
    [label |-> [margin |-> 3, fontSize |-> 10],
     name |-> [margin |-> 5, fontSize |-> 11]]

\* utils.getHeight: the font size times 1.2
getHeight(fontSize) == fontSize * 12

\* utils.getTextMetrics(text, style): measureText gives the width, here
\* cw for every character; it gives no height, so the height is getHeight
getTextMetrics(text, fontSize, cw) ==
    [width |-> cw * Len(text), height |-> getHeight(fontSize)]

\* AxisModel.prototype.updatePreDrawingSpace: the metrics of every text of
\* the model
AllDimension(model, fontSize, cw) ==
    [index \in 1..Len(model) |-> getTextMetrics(ToString(model[index]), fontSize, cw)]

\* the loops that find the largest height or width (lines 297-303, 545-551,
\* 1112-1120)
RECURSIVE MaxDimension(_, _, _, _)
MaxDimension(allDimension, key, index, max) ==
    IF index > Len(allDimension) THEN max
    ELSE MaxDimension(allDimension, key, index + 1,
                      IF max < allDimension[index][key]
                      THEN allDimension[index][key] ELSE max)

\* the layout objects the reserve phase acts on: the two stacks and the
\* measurement objects
Layout == [stacks |-> masterStack, heap |-> measurements]

\* measurement[key] -= amount on the body's measurement object
Reduce(lay, body, key, amount) ==
    [lay EXCEPT !.heap[body][key] = Minus(@, amount)]

\* placeInStack pushing the new entry at the end of the stack
PlaceObjectAtEnd(lay, stackName, i, instance, m) ==
    LET heap == Append(lay.heap, m)
    IN  [stacks |-> placeInStack(lay.stacks, heap, stackName,
                                 Len(lay.stacks[stackName]), instance, Len(heap)),
         heap |-> heap]

\* placeInStack(stackName, i)(instance, m) with a new measurement object m
PlaceObject(lay, stackName, i, instance, m) ==
    LET heap == Append(lay.heap, m)
    IN  [stacks |-> placeInStack(lay.stacks, heap, stackName, i, instance, Len(heap)),
         heap |-> heap]

\* this.stackingOrder of the X and the Y axis (lines 271, 513)
XStackingOrder == 1
YStackingOrder == 0

\* XAxisModel.prototype.allocateComponentSpace: totalHeight
XTotalHeight(model, axisName, cw) ==
    LET allDimension == AllDimension(model, AxisStub.label.fontSize, cw)
        max == MaxDimension(allDimension, "height", 1, NEGATIVE_INFINITY)
        totalHeight == Plus(ceil(max), Px(AxisStub.label.margin))
    IN  IF axisName # ""
        THEN Plus(totalHeight,
                  getTextMetrics(axisName, AxisStub.name.fontSize, cw).height
                      + Px(AxisStub.name.margin))
        ELSE totalHeight

\* x.updatePreDrawingSpace: the body height reduced, then the axis placed
XUpdatePreDrawingSpace(lay, body, instance, model, axisName, cw) ==
    LET totalHeight == XTotalHeight(model, axisName, cw)
    IN  PlaceObject(Reduce(lay, body, "height", totalHeight), VERTICAL,
                    XStackingOrder, instance, [height |-> totalHeight])

\* YAxisModel.prototype.allocateComponentSpace: totalWidth
YTotalWidth(model, axisName, cw) ==
    LET allDimension == AllDimension(model, AxisStub.label.fontSize, cw)
        max == MaxDimension(allDimension, "width", 1, NEGATIVE_INFINITY)
        totalWidth == Plus(ceil(max), Px(AxisStub.label.margin))
    IN  IF axisName # ""
        THEN Plus(totalWidth,
                  getTextMetrics(axisName, AxisStub.name.fontSize, cw).width
                      + Px(AxisStub.name.margin))
        ELSE totalWidth

\* y.updatePreDrawingSpace: the body width reduced, then the axis placed
YUpdatePreDrawingSpace(lay, body, instance, model, axisName, cw) ==
    LET totalWidth == YTotalWidth(model, axisName, cw)
    IN  PlaceObject(Reduce(lay, body, "width", totalWidth), HORIZONTAL,
                    YStackingOrder, instance, [width |-> totalWidth])

\* GradientColorAxis.prototype.getAdditionalSpace: the largest label height
\* and the label margin
getAdditionalSpace(axis) ==
    LET labelConf == axis.colorAxisData.label
        allDimension == [index \in 1..Len(axis.labelModel) |->
                            [height |-> getHeight(labelConf.fontSize)]]
        max == MaxDimension(allDimension, "height", 1, NEGATIVE_INFINITY)
    IN  Plus(max, Px(labelConf.margin))

\* totalHeightTaken of ColorAxisBase.prototype.updatePreDrawingSpace
TotalHeightTaken(axis) == Plus(Px(axis.colorAxisData.height), getAdditionalSpace(axis))

\* updatePreDrawingSpace placing the axis before it reduces the body height
ColorAxisPlaceThenReduce(lay, body, instance, axis) ==
    LET margin == Px(axis.colorAxisData.margin)
        totalHeightTaken == TotalHeightTaken(axis)
    IN  Reduce(PlaceObject(lay, VERTICAL, axis.stackingOrder, instance,
                           [height |-> totalHeightTaken]),
               body, "height", Plus(totalHeightTaken, margin))

\* ColorAxisBase.prototype.updatePreDrawingSpace: margin is
\* colorAxisData.margin || 0
ColorAxisUpdatePreDrawingSpace(lay, body, instance, axis) ==
    LET margin == Px(axis.colorAxisData.margin)
        totalHeightTaken == TotalHeightTaken(axis)
    IN  PlaceObject(Reduce(lay, body, "height", Plus(totalHeightTaken, margin)),
                    VERTICAL, axis.stackingOrder, instance,
                    [height |-> totalHeightTaken])

\* componentStackManager.getStackItemByInstance: the first entry of the
\* stack with this instance
RECURSIVE getStackItemByInstance(_, _, _)
getStackItemByInstance(rStack, instance, index) ==
    IF rStack[index + 1].instance = instance THEN rStack[index + 1]
    ELSE getStackItemByInstance(rStack, instance, index + 1)

\* the components of a render: the chart body and the axes of render n, and
\* a color axis instance
BodyOf(n) == "chartBody" \o ToString(n)
XOf(n) == "x" \o ToString(n)
YOf(n) == "y" \o ToString(n)
ColorOf(axis) == "colorAxis" \o ToString(axis.id)

\* the components of the render in progress
ChartBody == BodyOf(renders)
XAxis == XOf(renders)
YAxis == YOf(renders)
ColorAxisInstance == ColorOf(colorAxis)

\* the calls of gridManager.draw after its set up, in the order of the
\* source, with the parse ahead of the two end-listeners
DrawStepsParseEarly ==
    <<"placeInStack", "x.updatePreDrawingSpace", "y.updatePreDrawingSpace",
      "colorAxis.updatePreDrawingSpace", "getStackItemByInstance",
      "getDataModelMatrix", "x.draw", "y.draw", "colorAxis.draw",
      "parse", "DatasetRenderer", "TrackerModel">>

\* the calls of gridManager.draw after its set up, in the order of the
\* source (lines 2585-2624)
DrawSteps ==
    <<"placeInStack", "x.updatePreDrawingSpace", "y.updatePreDrawingSpace",
      "colorAxis.updatePreDrawingSpace", "getStackItemByInstance",
      "getDataModelMatrix", "x.draw", "y.draw", "colorAxis.draw",
      "DatasetRenderer", "TrackerModel", "parse">>

\* the statement after a step; "done" after the last
NextStep(step) ==
    LET k == CHOOSE n \in 1..Len(DrawSteps) : DrawSteps[n] = step
    IN  IF k = Len(DrawSteps) THEN "done" ELSE DrawSteps[k + 1]

StepDone(step) == [NoOp EXCEPT !.op = "draw", !.name = step]

\* The objects a render acts on, as a record d: the matrix objects and the
\* view (d.st), the two stacks and the measurement objects (d.stacks,
\* d.heap), and the locals and closure variables of gridManager.draw.
\* d.prev is the body height before the step that ran last.
DrawPack ==
    [st |-> Pack, axes |-> axes, dataModelMatrix |-> dataModelMatrix,
     dmMatrix |-> dmMatrix, elFns |-> elFns, eventMap |-> eventMap,
     renders |-> renders, stacks |-> masterStack, heap |-> measurements,
     axisInstance |-> axisInstance, colorAxis |-> colorAxis, inits |-> inits,
     pc |-> pc, trace |-> trace, bodyMetrics |-> bodyMetrics,
     translate |-> translate, axisData |-> axisData, clip |-> clip,
     placed |-> placed, drawPerformed |-> drawPerformed, prev |-> 0]

DrawUnpack(d) ==
    /\ Unpack(d.st)
    /\ axes' = d.axes
    /\ dataModelMatrix' = d.dataModelMatrix
    /\ dmMatrix' = d.dmMatrix
    /\ elFns' = d.elFns
    /\ eventMap' = d.eventMap
    /\ renders' = d.renders
    /\ masterStack' = d.stacks
    /\ measurements' = d.heap
    /\ axisInstance' = d.axisInstance
    /\ colorAxis' = d.colorAxis
    /\ inits' = d.inits
    /\ pc' = d.pc
    /\ trace' = d.trace
    /\ bodyMetrics' = d.bodyMetrics
    /\ translate' = d.translate
    /\ axisData' = d.axisData
    /\ clip' = d.clip
    /\ placed' = d.placed
    /\ drawPerformed' = d.drawPerformed
    /\ UNCHANGED <<chartData, ops, shrinks, config, axisModels, colorResult,
                   charWidth>>

\* the layout objects of d, and d with them replaced
LayoutOf(d) == [stacks |-> d.stacks, heap |-> d.heap]
WithLayout(d, lay) == [d EXCEPT !.stacks = lay.stacks, !.heap = lay.heap]

\* GridMap.prototype.render up to the first placeInStack: gridManager.init
\* makes the matrix; gridManager.draw binds the interaction manager, makes the
\* axes and the body measurement (lines 2556-2583); colorConfig is the
\* color entry of the axis config of this render.  The handlers of the new
\* matrix and the groups of the new renderer and tracker start empty; the
\* legends drawn before stay in the document, and draws goes on counting the
\* draws of every renderer.
Begin(d, colorConfig) ==
    LET heap == Append(d.heap,
                    [width |-> Px(GridMapStub.width - GridMapStub.margin.left
                                      - GridMapStub.margin.right),
                     height |-> Px(GridMapStub.height - GridMapStub.margin.top
                                       - GridMapStub.margin.bottom)])
        axis == colorAxisManagerInit(d.axisInstance, d.inits + 1, colorConfig,
                                     chartData)
    IN  [d EXCEPT
           !.renders = @ + 1,
           !.pc = DrawSteps[1],
           !.trace = <<>>,
           !.dataModelMatrix = @ + 1,
           !.dmMatrix = d.dataModelMatrix + 1,
           !.st = [NewMatrix EXCEPT
                      !.view = [NoView EXCEPT !.legend = d.st.view.legend,
                                              !.draws = d.st.view.draws]],
           !.elFns = <<>>,
           !.eventMap = DefaultEventMap,
           !.axes = [x |-> getNormalizedModel(chartData, AxisConfig(X_KEY)).v,
                     y |-> getNormalizedModel(chartData, AxisConfig(Y_KEY)).v],
           !.axisData.color = colorConfig,
           !.axisInstance = axis,
           !.colorAxis = axis,
           !.inits = @ + 1,
           !.heap = heap,
           !.bodyMetrics = Len(heap)]

\* the body placed first in both stacks with its one measurement object
\* (lines 2585-2586)
BodyPlaced(d) ==
    LET vertical == placeInStack(d.stacks, d.heap, VERTICAL, 0,
                                 BodyOf(d.renders), d.bodyMetrics)
    IN  [d EXCEPT !.stacks = placeInStack(vertical, d.heap, HORIZONTAL, 0,
                                          BodyOf(d.renders), d.bodyMetrics)]

\* colorAxis.updatePreDrawingSpace(dependencyController) (line 2590); a
\* TypeError ends the draw when colorAxisManager.init returned undefined
ColorReserved(d) ==
    IF d.colorAxis = NoAxis THEN [d EXCEPT !.st.threw = TRUE]
    ELSE [WithLayout(d, ColorAxisUpdatePreDrawingSpace(
                            LayoutOf(d), d.bodyMetrics, ColorOf(d.colorAxis),
                            d.colorAxis))
             EXCEPT !.prev = d.heap[d.bodyMetrics].height]

\* the positions the components of the render in progress read from the
\* stacks when they are drawn (lines 350, 593, 971, 2597-2600), with the
\* color config of the render
StackPositions(d) ==
    [color |-> d.axisData.color,
     bodyX |-> getStackItemByInstance(d.stacks[HORIZONTAL], BodyOf(d.renders), 0).pos,
     bodyY |-> getStackItemByInstance(d.stacks[VERTICAL], BodyOf(d.renders), 0).pos,
     x |-> getStackItemByInstance(d.stacks[VERTICAL], XOf(d.renders), 0).pos,
     y |-> getStackItemByInstance(d.stacks[HORIZONTAL], YOf(d.renders), 0).pos,
     colorAxis |-> getStackItemByInstance(d.stacks[VERTICAL],
                                          ColorOf(d.colorAxis), 0).pos]

\* translate.x and translate.y from the body's entries (lines 2597-2602)
Translated(d) ==
    [d EXCEPT
       !.translate =
           [x |-> getStackItemByInstance(d.stacks[HORIZONTAL],
                                         BodyOf(d.renders), 0).pos,
            y |-> getStackItemByInstance(d.stacks[VERTICAL],
                                         BodyOf(d.renders), 0).pos],
       !.placed = Append(@, StackPositions(d))]

\* the interaction manager object where a series name is expected: no
\* series has it as its name
INTERACTION_MANAGER == "[object Object]"

\* the trackers of the series legend: one per entry of the label model,
\* each with that entry as its sId (lines 1494-1517)
LegendTrackers(axis) == {axis.labelModel[k] : k \in 1..Len(axis.labelModel)}

\* measurement of ColorAxisBase.prototype.draw (lines 978-985): the rect
\* of the axis, from the body width left by the reserve phase.  Its lengths
\* are in units of 1/RatioScale of a tenth of a px, which keeps the widths
\* of the clip rects exact.
\* A body width the reserve phase made infinite (an axis model without
\* entries) gives a rect of infinite width at x = NaN, and so is every clip
\* rect.
AxisMeasurement(d) ==
    LET colorAxisData == d.colorAxis.colorAxisData
        effBodyWidth == d.heap[d.bodyMetrics].width * RatioScale
        width == (effBodyWidth * colorAxisData.widthF) \div 100
    IN  IF Finite(d.heap[d.bodyMetrics].width)
        THEN [height |-> Px(colorAxisData.height) * RatioScale,
              width |-> width,
              x |-> effBodyWidth \div 2 - width \div 2,
              y |-> Px(colorAxisData.margin) * RatioScale]
        ELSE [height |-> Px(colorAxisData.height) * RatioScale,
              width |-> 0 - NEGATIVE_INFINITY,
              x |-> NaN,
              y |-> Px(colorAxisData.margin) * RatioScale]

\* SeriesColorAxis.prototype.getClippedRect (lines 1447-1454) as
\* ColorAxisBase.prototype.drawAxis calls it (lines 1030-1039), and
\* breakRatios.push(100) of postAxisPlotDrawing (line 1569): the options,
\* the clip path and this.stopsConfObj.breakRatios after the draw
SeriesClip(d) ==
    LET stopsConfObj == getStopsConfiguration(d.colorAxis)
        breakRatios == [k \in 1..Len(stopsConfObj.breakRatios) |->
                            stopsConfObj.breakRatios[k] * RatioScale]
        options == [refRect |-> AxisMeasurement(d), ratios |-> breakRatios,
                    tolerance |-> Px(AxisBreak) * RatioScale]
    IN  [NoClip EXCEPT !.pc = "returned",
                       !.refRect = options.refRect,
                       !.ratios = options.ratios,
                       !.url = "url(#color-axis-clip)",
                       !.rects = IF Finite(d.heap[d.bodyMetrics].width)
                                 THEN createClipRect(options)
                                 ELSE [k \in 1..(Len(breakRatios) + 1) |->
                                          options.refRect],
                       !.stops = Append(breakRatios, 100 * RatioScale)]

\* GradientColorAxis.prototype.getClippedRect for the stub's axis config,
\* which has no noOfBreaks: null (line 1154)
GradientClip(d) ==
    [NoClip EXCEPT !.pc = "returned", !.url = "null",
                   !.stops = GradientBreakRatios(d.colorAxis.colorAxisData.code.values)]

\* colorAxis.draw (line 2617).  SeriesColorAxis.prototype.drawAxis starts
\* with self.clickHandler(interactionManager): on an instance that was not
\* drawn before this is the prototype's function, which installs the
\* instance's own click handler; on an instance that was drawn before it is
\* that own handler, which takes its argument for a series name and
\* performs DELETE_BY_SID with it (lines 1456-1462, 1482, 1640-1643).  Then
\* the axis rect is drawn with its clip path, and the trackers of the
\* legend.
ColorAxisDrawn(d) ==
    IF d.colorAxis.class = "SeriesColorAxis" /\ d.colorAxis.clickHandler = "own"
    THEN LET seriesInstance == getSeriesById(d.st.instances, INTERACTION_MANAGER)
         IN  [d EXCEPT
                !.drawPerformed = Append(@, INTERACTION_MANAGER),
                !.st = unset(d.st, d.eventMap, d.elFns, seriesInstance)]
    ELSE IF d.colorAxis.class = "SeriesColorAxis"
    THEN LET axis == [d.colorAxis EXCEPT !.clickHandler = "own"]
         IN  [d EXCEPT
                !.colorAxis = axis,
                !.axisInstance = axis,
                !.clip = SeriesClip(d),
                !.st.view.legend = @ \cup LegendTrackers(d.colorAxis)]
    ELSE [d EXCEPT !.clip = GradientClip(d)]

\* new DatasetRenderer and new TrackerModel (lines 2621-2622): each sets up
\* its draw and registers it as an end-listener; the renderer's draw keeps
\* axes.colorAxis
ListenerOf(step) ==
    IF step = "DatasetRenderer" THEN <<"renderer.draw", "renderer">>
    ELSE <<"tracker.draw", "tracker">>

Registered(d, step) ==
    LET r == onEnd(d.eventMap, d.elFns, d.dataModelMatrix,
                   ListenerOf(step)[1], ListenerOf(step)[2])
        d1 == [d EXCEPT !.elFns = r.elFns, !.eventMap = r.eventMap]
    IN  IF step = "DatasetRenderer"
        THEN [d1 EXCEPT !.st.view.axis = d.colorAxis]
        ELSE d1

\* x.updatePreDrawingSpace(dependencyController) (line 2588)
XReserved(d) ==
    WithLayout(d, XUpdatePreDrawingSpace(LayoutOf(d), d.bodyMetrics,
                                         XOf(d.renders), d.axes.x,
                                         d.axisData.x.name, charWidth))

\* y.updatePreDrawingSpace(dependencyController) (line 2589)
YReserved(d) ==
    WithLayout(d, YUpdatePreDrawingSpace(LayoutOf(d), d.bodyMetrics,
                                         YOf(d.renders), d.axes.y,
                                         d.axisData.y.name, charWidth))

\* dsParser.getDataModelMatrix(x.getModel(), y.getModel()) (line 2613)
MatrixPrepared(d) ==
    [d EXCEPT !.st = getDataModelMatrix(@, d.eventMap, d.axes.x, d.axes.y)]

\* dsParser.parse() (line 2624): its end event makes the two listeners draw
Parsed(d) == [d EXCEPT !.st = parse(@, d.eventMap, d.elFns, chartData)]

\* one call of gridManager.draw; x.draw and y.draw (lines 2615-2616) change
\* the document only
Step(d, step) ==
    CASE step = "placeInStack" -> BodyPlaced(d)
      [] step = "x.updatePreDrawingSpace" -> XReserved(d)
      [] step = "y.updatePreDrawingSpace" -> YReserved(d)
      [] step = "colorAxis.updatePreDrawingSpace" -> ColorReserved(d)
      [] step = "getStackItemByInstance" -> Translated(d)
      [] step = "getDataModelMatrix" -> MatrixPrepared(d)
      [] step \in {"x.draw", "y.draw"} -> d
      [] step = "colorAxis.draw" -> ColorAxisDrawn(d)
      [] step \in {"DatasetRenderer", "TrackerModel"} -> Registered(d, step)
      [] step = "parse" -> Parsed(d)

\* the call made and the statement to execute next; a call that throws ends
\* the draw
Stepped(d, step) ==
    [d EXCEPT !.trace = Append(@, step),
              !.pc = IF d.st.threw THEN "threw" ELSE NextStep(step)]

\* gridManager.draw from the statement d.pc on, to its end or to the call
\* that throws
RECURSIVE Drawn(_)
Drawn(d) ==
    IF d.pc \in {"done", "threw"} THEN d
    ELSE Drawn(Stepped(Step(d, d.pc), d.pc))

\* ---- gridManager.draw call by call
DrawBegin(colorConfig) ==
    /\ pc \in {"idle", "done", "threw"}
    /\ renders < MaxRenders
    /\ DrawUnpack(Begin(DrawPack, colorConfig))
    /\ last' = StepDone("init")

\* the call at pc is made, which leaves d
DrawStep(step, d) ==
    /\ pc = step
    /\ DrawUnpack(Stepped(d, step))
    /\ last' = [StepDone(step) EXCEPT !.threw = d.st.threw,
                                      !.endFired = d.st.endFired,
                                      !.prev = d.prev]

PlaceBody == DrawStep("placeInStack", BodyPlaced(DrawPack))

ReserveX == DrawStep("x.updatePreDrawingSpace", XReserved(DrawPack))

ReserveY == DrawStep("y.updatePreDrawingSpace", YReserved(DrawPack))

\* last.prev is the body height before the call
ReserveColor == DrawStep("colorAxis.updatePreDrawingSpace", ColorReserved(DrawPack))

Translate == DrawStep("getStackItemByInstance", Translated(DrawPack))

PrepareMatrix == DrawStep("getDataModelMatrix", MatrixPrepared(DrawPack))

DrawAxis(step) ==
    /\ step \in {"x.draw", "y.draw"}
    /\ DrawStep(step, DrawPack)

DrawColorAxis == DrawStep("colorAxis.draw", ColorAxisDrawn(DrawPack))

NewListener(step, fn, context) ==
    /\ step \in {"DatasetRenderer", "TrackerModel"}
    /\ <<fn, context>> = ListenerOf(step)
    /\ DrawStep(step, Registered(DrawPack, step))

DrawParse == DrawStep("parse", Parsed(DrawPack))

\* the inputs: the axis names, the color axis config with the stub's margin
\* or with margin 0, and the width of a character
AxisNames == {"", "Name"}
DrawColorCode(type) ==
    [key |-> "name", type |-> type, colors |-> <<"color1", "color2">>,
     values |-> <<0, 100>>]
DrawColorConfigs ==
    {[code |-> DrawColorCode(type), margin |-> margin] :
         type \in {"series", "gradient", "pie"},
         margin \in {0, ColorAxisStub.margin}}
DrawAxisData ==
    {[x |-> [name |-> xName], y |-> [name |-> yName],
      color |-> DefaultAxisData.color] :
         xName \in AxisNames, yName \in AxisNames}
CharWidths == {55, 62}

DrawNext ==
    \/ \E colorConfig \in DrawColorConfigs : DrawBegin(colorConfig)
    \/ PlaceBody
    \/ ReserveX
    \/ ReserveY
    \/ ReserveColor
    \/ Translate
    \/ PrepareMatrix
    \/ \E step \in {"x.draw", "y.draw"} : DrawAxis(step)
    \/ DrawColorAxis
    \/ NewListener("DatasetRenderer", "renderer.draw", "renderer")
    \/ NewListener("TrackerModel", "tracker.draw", "tracker")
    \/ DrawParse

DrawInitial ==
    /\ chartData \in HookData
    /\ MatrixInit
    /\ StackInit
    /\ config = DefaultConfig
    /\ axisModels = NoModels
    /\ ColorInit
    /\ pc = "idle"
    /\ trace = <<>>
    /\ bodyMetrics = 0
    /\ translate = [x |-> 0, y |-> 0]
    /\ axisData \in DrawAxisData
    /\ charWidth \in CharWidths
    /\ ExtraInit

SpecDraw == DrawInitial /\ [][DrawNext]_vars

\* ------------------------------------------------------------ actions
\* what an operation on the current matrix leaves alone
OpUnchanged ==
    UNCHANGED <<chartData, axes, dataModelMatrix, dmMatrix, elFns, eventMap,
                renders, stackVars, config, axisModels, colorVars, drawVars,
                clip, placed, drawPerformed>>

\* GridMap.prototype.render: gridManager.init and gridManager.draw, every
\* call of it in turn up to its end or to the call that throws; the color
\* axis config is the one of the chart's data
Render ==
    /\ renders < MaxRenders
    /\ LET d == Drawn(Begin(DrawPack, axisData.color))
       IN  /\ DrawUnpack(d)
           /\ last' = [NoOp EXCEPT !.op = "render", !.threw = d.st.threw,
                                   !.endFired = d.st.endFired]

\* DatasetParser.prototype.parse called again on the current matrix
Parse ==
    /\ renders >= 1
    /\ ops < MaxOps
    /\ LET st1 == parse(Pack, eventMap, elFns, chartData)
       IN  /\ Unpack(st1)
           /\ last' = [NoOp EXCEPT !.op = "parse", !.threw = st1.threw,
                                   !.endFired = st1.endFired]
    /\ ops' = ops + 1
    /\ OpUnchanged

\* interactionManager.perform(DELETE_BY_SID, [seriesId]): the click on a
\* section of the series legend
Perform(seriesId) ==
    /\ renders >= 1
    /\ ops < MaxOps
    /\ dmMatrix = dataModelMatrix
    /\ LET seriesInstance == getSeriesById(instances, seriesId)
           st1 == unset(Pack, eventMap, elFns, seriesInstance)
       IN  /\ Unpack(st1)
           /\ last' = [NoOp EXCEPT !.op = "perform", !.name = seriesId,
                                   !.sid = seriesInstance, !.threw = st1.threw,
                                   !.endFired = st1.endFired]
    /\ ops' = ops + 1
    /\ OpUnchanged

\* the series constructed by the latest parse
LatestSeries == (Len(instances) - Len(chartData) + 1)..Len(instances)

\* the cells the direct set calls are tried on: set checks neither index,
\* so that on a small grid <<0, 1>> and <<1, 10>> lie past the end of their
\* row and <<1, 10>> and <<11, 0>> in a row the matrix does not have
SetCells == {<<0, 0>>, <<0, 1>>, <<1, 10>>, <<11, 0>>}

UpdateFns == {ZeroFn} \cup {Callback(sid) : sid \in LatestSeries}

\* dataModelMatrix.set(i, j, fn)
Set3(i, j, fn) ==
    /\ renders >= 1
    /\ ops < MaxOps
    /\ LET st1 == MatrixSet3(Pack, eventMap, i, j, fn)
       IN  /\ Unpack(st1)
           /\ last' = [NoOp EXCEPT !.op = "set3", !.i = i, !.j = j, !.fn = fn,
                                   !.prev = IF i < ArrLen(matrix)
                                            THEN MatrixGet(Pack, i, j)
                                            ELSE Undefined,
                                   !.threw = st1.threw]
    /\ ops' = ops + 1
    /\ OpUnchanged

\* the rows the direct two-argument set calls are tried on, when in the matrix
SetRows == {i \in {0, 1} : i < ArrLen(matrix)}

\* dataModelMatrix.set(i, val): row i re-initialised; no table entry is
\* written and no listener called
Set2(i, val) ==
    /\ renders >= 1
    /\ ops < MaxOps
    /\ LET st1 == MatrixSet2(Pack, i, val)
       IN  /\ Unpack(st1)
           /\ last' = [NoOp EXCEPT !.op = "set2", !.i = i, !.threw = st1.threw]
    /\ ops' = ops + 1
    /\ OpUnchanged

ListenerFns == {"f1", "f2"}
ListenerContexts == {"c1", "c2"}

\* dataModelMatrix.onEnd(fn, context)
OnEnd(fn, context) ==
    /\ renders >= 1
    /\ ops < MaxOps
    /\ Len(elFns) < 2 + MaxListeners
    /\ LET r == onEnd(eventMap, elFns, dataModelMatrix, fn, context)
       IN  /\ elFns' = r.elFns
           /\ eventMap' = r.eventMap
    /\ last' = [NoOp EXCEPT !.op = "onEnd", !.name = fn]
    /\ evLog' = <<>>
    /\ ops' = ops + 1
    /\ UNCHANGED <<chartData, instances, axes, dataModelMatrix, dmMatrix, matrix,
                   updateM, tableKeys, lookupModel, handlers, touched, batch, renders,
                   rowProps, stackVars, otherVars>>

SetListeners == {"", "onSet"}
UnsetListeners == {"", "onUnset"}

\* dataModelMatrix.addModelUpdateListener({set: eSet, unset: eUnset})
AddModelUpdateListener(eSet, eUnset) ==
    /\ renders >= 1
    /\ ops < MaxOps
    /\ eventMap' = addModelUpdateListener(eventMap, eSet, eUnset)
    /\ eventMap' # eventMap
    /\ last' = [NoOp EXCEPT !.op = "addModelUpdateListener"]
    /\ evLog' = <<>>
    /\ ops' = ops + 1
    /\ UNCHANGED <<chartData, instances, axes, dataModelMatrix, dmMatrix, matrix,
                   updateM, tableKeys, lookupModel, elFns, handlers, touched, batch,
                   renders, rowProps, stackVars, otherVars>>

\* dataModelMatrix.fireEvent(eventName)
FireEvent(eventName) ==
    /\ renders >= 1
    /\ ops < MaxOps
    /\ LET st1 == fireEvent(Pack, eventMap, elFns, eventName)
       IN  /\ Unpack(st1)
           /\ last' = [NoOp EXCEPT !.op = "fireEvent", !.name = eventName,
                                   !.threw = st1.threw,
                                   !.endFired = st1.endFired]
    /\ ops' = ops + 1
    /\ OpUnchanged

DataNames == {chartData[k].name : k \in 1..Len(chartData)}

ParseNext ==
    \/ Render
    \/ Parse
    \/ \E name \in DataNames : Perform(name)

ParseInitial ==
    /\ chartData \in DataSets
    /\ MatrixInit
    /\ StackInit
    /\ OtherInit

SpecParse == ParseInitial /\ [][ParseNext]_vars

MatrixNext ==
    \/ Render
    \/ Parse
    \/ \E name \in DataNames : Perform(name)
    \/ \E c \in SetCells, fn \in UpdateFns : Set3(c[1], c[2], fn)
    \/ \E i \in SetRows : Set2(i, EmptyArr)
    \/ \E fn \in ListenerFns, context \in ListenerContexts : OnEnd(fn, context)
    \/ \E eSet \in SetListeners, eUnset \in UnsetListeners :
           AddModelUpdateListener(eSet, eUnset)
    \/ \E eventName \in {"set", "unset", "end"} : FireEvent(eventName)

MatrixInitial ==
    /\ chartData \in MatrixData
    /\ MatrixInit
    /\ StackInit
    /\ OtherInit

SpecMatrix == MatrixInitial /\ [][MatrixNext]_vars

\* ------------------------------------------------------------ rendering with hooks
HookNext ==
    \/ Render
    \/ \E name \in DataNames : Perform(name)

HookInitial ==
    /\ chartData \in HookData
    /\ MatrixInit
    /\ StackInit
    /\ config \in [{X_KEY, Y_KEY} -> ArrayHooks]
    /\ axisModels = NoModels
    /\ ColorInit
    /\ DrawInit
    /\ ExtraInit

SpecHook == HookInitial /\ [][HookNext]_vars

\* ------------------------------------------------------------ rendering and clicks
\* a click on a tracker of a series legend between two renders:
\* intermediateClickHandler calls the instance's own click handler with the
\* tracker's sId, which performs DELETE_BY_SID (lines 1484-1486, 1456-1462,
\* 1640-1643); the end event of the unset makes the listeners draw
ClickLegend(seriesName) ==
    /\ pc \in {"done", "threw"}
    /\ seriesName \in view.legend
    /\ ops < MaxOps
    /\ LET seriesInstance == getSeriesById(instances, seriesName)
           st1 == unset(Pack, eventMap, elFns, seriesInstance)
       IN  /\ Unpack(st1)
           /\ last' = [NoOp EXCEPT !.op = "perform", !.name = seriesName,
                                   !.sid = seriesInstance, !.threw = st1.threw,
                                   !.endFired = st1.endFired]
    /\ ops' = ops + 1
    /\ OpUnchanged

\* the inputs: two free series of at most one row each, which share a cell
\* or not, and a series color axis
RenderData ==
    {ds \in DataSets :
         /\ Len(ds) = 3
         /\ ds[1].data = <<>>
         /\ Len(ds[2].data) <= 1
         /\ Len(ds[3].data) <= 1}
RenderColorConfigs == {c \in DrawColorConfigs : c.code.type = "series"}

RenderNext ==
    \/ \E colorConfig \in RenderColorConfigs : DrawBegin(colorConfig)
    \/ PlaceBody
    \/ ReserveX
    \/ ReserveY
    \/ ReserveColor
    \/ Translate
    \/ PrepareMatrix
    \/ \E step \in {"x.draw", "y.draw"} : DrawAxis(step)
    \/ DrawColorAxis
    \/ NewListener("DatasetRenderer", "renderer.draw", "renderer")
    \/ NewListener("TrackerModel", "tracker.draw", "tracker")
    \/ DrawParse
    \/ \E seriesName \in DataNames : ClickLegend(seriesName)

RenderInitial ==
    /\ chartData \in RenderData
    /\ MatrixInit
    /\ StackInit
    /\ config = DefaultConfig
    /\ axisModels = NoModels
    /\ ColorInit
    /\ pc = "idle"
    /\ trace = <<>>
    /\ bodyMetrics = 0
    /\ translate = [x |-> 0, y |-> 0]
    /\ axisData \in {d \in DrawAxisData : d.x.name = d.y.name}
    /\ charWidth = 55
    /\ ExtraInit

SpecRender == RenderInitial /\ [][RenderNext]_vars

\* ------------------------------------------------------------ getClippedRect
\* i and breakRatios are followed for this many iterations; every valid
\* whole noOfBreaks up to MaxBreaks needs fewer, and from there on i is
\* above breaks, so that i !== breaks stays true.  Of the iterations beyond
\* only the parity is kept.
LoopCap == MaxBreaks + 2

\* getClippedRect(svgDefsManager, options) up to the loop: the test of
\* breaks, which returns null or sets up the loop (lines 1139-1162)
GetClippedRect(breaks, width, values) ==
    /\ clip.pc \in {"idle", "returned"}
    /\ clip' = IF ~ValidBreaks(breaks)
               THEN [NoClip EXCEPT !.pc = "returned", !.breaks = breaks,
                                   !.url = "null"]
               ELSE [NoClip EXCEPT !.pc = "loop", !.breaks = breaks,
                                   !.refRect = RefRect(width),
                                   !.ratios = GradientBreakRatios(values),
                                   !.i = 1]
    /\ last' = [NoOp EXCEPT !.op = "getClippedRect"]
    /\ UNCHANGED <<chartData, instances, axes, dataModelMatrix, dmMatrix, matrix,
                   updateM, tableKeys, lookupModel, elFns, eventMap, handlers, evLog,
                   touched, batch, renders, ops, rowProps, stackVars, config,
                   axisModels, colorVars, drawVars, placed, drawPerformed,
                   view>>

\* one iteration of while (i !== breaks): breakRatios.push((i++) *
\* sectionSpread) (lines 1163-1167)
ClipLoop ==
    /\ clip.pc = "loop"
    /\ NotBreaks(clip.i, clip.breaks)
    /\ LET max == clip.ratios[Len(clip.ratios)]
       IN  clip' = IF clip.i < LoopCap
                   THEN [clip EXCEPT
                           !.breakRatios =
                               Append(@, clip.i * SectionSpread(max, clip.breaks)),
                           !.i = @ + 1]
                   ELSE [clip EXCEPT !.beyond = 1 - @]
    /\ last' = [NoOp EXCEPT !.op = "getClippedRect.loop"]
    /\ UNCHANGED <<chartData, instances, axes, dataModelMatrix, dmMatrix, matrix,
                   updateM, tableKeys, lookupModel, elFns, eventMap, handlers, evLog,
                   touched, batch, renders, ops, rowProps, stackVars, config,
                   axisModels, colorVars, drawVars, placed, drawPerformed,
                   view>>

\* the loop left: options and meta.breakRatios set, the clip path created
\* (lines 1169-1180)
ClipReturn ==
    /\ clip.pc = "loop"
    /\ ~NotBreaks(clip.i, clip.breaks)
    /\ LET min == clip.ratios[1]
           max == clip.ratios[Len(clip.ratios)]
           options == [refRect |-> clip.refRect, ratios |-> clip.breakRatios,
                       tolerance |-> AxisBreak * RatioScale]
       IN  clip' = [clip EXCEPT
                       !.pc = "returned",
                       !.meta = <<min>> \o clip.breakRatios \o <<max>>,
                       !.url = "url(#color-axis-clip)",
                       !.rects = createClipRect(options)]
    /\ last' = [NoOp EXCEPT !.op = "getClippedRect.return"]
    /\ UNCHANGED <<chartData, instances, axes, dataModelMatrix, dmMatrix, matrix,
                   updateM, tableKeys, lookupModel, elFns, eventMap, handlers, evLog,
                   touched, batch, renders, ops, rowProps, stackVars, config,
                   axisModels, colorVars, drawVars, placed, drawPerformed,
                   view>>

\* the inputs: noOfBreaks absent or a multiple of one half from -2 to
\* MaxBreaks, the width of the axis rect (px), code.values
BreaksConfigs ==
    {[defined |-> FALSE, halves |-> 0]}
        \cup {[defined |-> TRUE, halves |-> h] : h \in (0 - 4)..(2 * MaxBreaks)}
ClipWidths == {420, 210}
ClipValues == {<<0, 100>>, <<10, 20, 50>>}

ClipNext ==
    \/ \E breaks \in BreaksConfigs, width \in ClipWidths, values \in ClipValues :
           GetClippedRect(breaks, width, values)
    \/ ClipLoop
    \/ ClipReturn

ClipInitial ==
    /\ chartData = <<>>
    /\ MatrixInit
    /\ StackInit
    /\ OtherInit

SpecClip == ClipInitial /\ [][ClipNext]_vars

\* the scheduling: a call that can take a step takes it
SpecClipLive == SpecClip /\ WF_vars(ClipLoop) /\ WF_vars(ClipReturn)

\* ------------------------------------------------------------ properties
\* the reserved sizes of the entries before 1-based position k, added up
RECURSIVE ReservedBefore(_, _, _)
ReservedBefore(rStack, key, k) ==
    IF k = 1 THEN 0
    ELSE ReservedBefore(rStack, key, k - 1)
             + measurements[rStack[k - 1].measurement][key]

\* C1: after every placeInStack call on a stack, the first entry of that
\* stack has pos 0 and every later entry has pos equal to the sum of the
\* reserved sizes of the entries before it, whatever index was used.
C1_PrefixSumPositions ==
    last.op = "placeInStack" =>
        LET rStack == masterStack[last.name]
        IN  \A k \in 1..Len(rStack) :
                rStack[k].pos = ReservedBefore(rStack, MeasurementKey(last.name), k)

\* three entries in the vertical stack, the last placed at the front
C1_Witness ==
    /\ last.op = "placeInStack"
    /\ last.name = VERTICAL
    /\ last.i = 0
    /\ Len(masterStack[VERTICAL]) = 3
    /\ masterStack[VERTICAL][2].pos = 1
    /\ masterStack[VERTICAL][3].pos = 2

\* the number of times series sid occurs in a handler's series list
Occurrences(handler, sid) ==
    Cardinality({m \in 1..Len(handler.series) : handler.series[m] = sid})

\* C2: after perform(DELETE_BY_SID, [name]) the handler stored at every cell
\* of the named series' own cells list no longer contains that series.
C2_DeleteRemovesSeries ==
    (last.op = "perform" /\ ~last.threw) =>
        \A k \in 1..Len(instances[last.sid].cells) :
            LET cell == instances[last.sid].cells[k]
                h == MatrixGet(Pack, cell[1], cell[2])
            IN  Truthy(h) => Occurrences(handlers[h], last.sid) = 0

\* C3: an unset that completes fires the end listener exactly once, after
\* all removals (the event sees the handlers as the call leaves them), and
\* invokes neither the set nor the unset listener.
C3_UnsetFiresEndOnce ==
    (last.op = "perform" /\ ~last.threw) =>
        /\ Len(last.endFired) = 1
        /\ last.endFired[1].handlers = handlers
        /\ Len(evLog) = Len(elFns)
        /\ \A k \in 1..Len(evLog) : evLog[k].ev = "end"

\* a series with two cells deleted while a set and an unset listener are
\* registered
C3_Witness ==
    /\ last.op = "perform"
    /\ ~last.threw
    /\ Len(instances[last.sid].cells) >= 2
    /\ eventMap.set # EMPTY_FN
    /\ eventMap.unset # EMPTY_FN
    /\ \E h \in 1..Len(handlers) : handlers[h].series = <<>>

\* C4 as stated: at every end event the table holds exactly the cells set to
\* a truthy value since the previous end event.
C4_TableHoldsLastBatchOnly ==
    \A k \in 1..Len(last.endFired) :
        DOMAIN last.endFired[k].table =
            {UpdateKey(c[1], c[2]) : c \in last.endFired[k].batch}

\* C4 amended: at every end event the table holds an entry under the key of
\* every cell set to a truthy value since the matrix was created, and no
\* other entry; entries of earlier batches are retained.
C4_TableAccumulates ==
    \A k \in 1..Len(last.endFired) :
        LET f == last.endFired[k]
        IN  /\ DOMAIN f.table = {UpdateKey(c[1], c[2]) : c \in f.touched}
            /\ \A key \in DOMAIN f.table :
                   /\ <<f.table[key][1], f.table[key][2]>> \in f.touched
                   /\ UpdateKey(f.table[key][1], f.table[key][2]) = key

\* a second batch that set one new cell, delivered with the first batch's
\* entries still in the table
C4_Witness ==
    /\ last.op = "fireEvent"
    /\ last.name = "end"
    /\ Len(last.endFired) = 1
    /\ Cardinality(last.endFired[1].batch) = 1
    /\ Cardinality(DOMAIN last.endFired[1].table) = 3

\* C5: after parse, the handler at the cell a row maps to contains the row's
\* series exactly once, also when the series has several rows at that cell.
C5_RoundTripExactlyOnce ==
    (last.op = "render" /\ ~last.threw) =>
        \A d \in 1..Len(chartData) :
            \A r \in 1..Len(chartData[d].data) :
                LET row == chartData[d].data[r]
                    i == IndexOf(axes.y, row[Y_KEY])
                    j == IndexOf(axes.x, row[X_KEY])
                    sid == Len(instances) - Len(chartData) + d
                    h == MatrixGet(Pack, i, j)
                IN  Truthy(h) /\ Occurrences(handlers[h], sid) = 1

\* C6: set(i, j, fn) stores fn(previous value) in cell (i, j); records
\* [i, j, result] under the key i-then-j exactly when the result is truthy
\* and leaves the table untouched otherwise; and invokes the registered set
\* listener exactly once with (i, j, result) in both cases.
C6_SetStoresRecordsNotifies ==
    [][(last'.op = "set3" /\ ~last'.threw) =>
          LET i == last'.i
              j == last'.j
              key == ToString(i) \o ToString(j)
              applied == ApplyFn(last'.fn, MatrixGet(Pack, i, j), handlers)
              result == MatrixGet([matrix |-> matrix', props |-> rowProps'], i, j)
          IN  /\ result = applied.val
              /\ handlers' = applied.handlers
              /\ IF Truthy(result)
                 THEN /\ DOMAIN updateM' = DOMAIN updateM \cup {key}
                      /\ updateM'[key] = <<i, j, result>>
                      /\ \A other \in DOMAIN updateM \ {key} :
                             updateM'[other] = updateM[other]
                 ELSE updateM' = updateM
              /\ evLog' = IF eventMap.set = EMPTY_FN THEN <<>>
                          ELSE <<[ev |-> "set", fn |-> eventMap.set, ctx |-> "",
                                  args |-> <<i, j, result>>, table |-> 0]>>]_vars

\* an occupied cell set to the falsy value while a set listener is registered
C6_Witness ==
    /\ last.op = "set3"
    /\ last.fn = ZeroFn
    /\ Truthy(last.prev)
    /\ MatrixGet(Pack, last.i, last.j) = 0
    /\ UpdateKey(last.i, last.j) \in DOMAIN updateM
    /\ Len(evLog) = 1
    /\ evLog[1].fn = "onSet"

IsEndCall(e) == e.ev = "end"

ExpectedEndCalls ==
    [k \in 1..Len(elFns) |->
        [ev |-> "end", fn |-> elFns[k][1], ctx |-> elFns[k][2],
         args |-> <<>>, table |-> dataModelMatrix]]

\* C7: every fireEvent('end') invokes each registered listener exactly once,
\* in registration order, within the firing operation, each with its own
\* context and with the matrix's one table object.
C7_EndInvokesListenersInOrder ==
    Len(last.endFired) = 1 => SelectSeq(evLog, IsEndCall) = ExpectedEndCalls

\* the matrix m has one row per entry of the Y model, each with one cell per
\* entry of the X model
DimensionsOf(m, models) ==
    /\ ArrLen(m) = Len(models.y)
    /\ \A i \in 0..(ArrLen(m) - 1) : ArrLen(ArrGet(m, i)) = Len(models.x)

\* the matrices m and n have the same number of rows and every row of m the
\* length of the same row of n
SameShape(m, n) ==
    /\ ArrLen(m) = ArrLen(n)
    /\ \A i \in 0..(ArrLen(m) - 1) : ArrLen(ArrGet(m, i)) = ArrLen(ArrGet(n, i))

\* C8: after getDataModelMatrix the matrix has |yModel| rows of |xModel|
\* cells each, and no later set(i, j, fn), parse or unset changes the number
\* of rows or the length of any row.
C8_DimensionsFixed ==
    [][/\ last'.op = "render" => DimensionsOf(matrix', axes')
       /\ (renders >= 1 /\ last'.op \in {"set3", "parse", "perform"})
              => SameShape(matrix, matrix')]_vars

\* some row of the dataset maps to cell (i, j)
RowMapsTo(i, j) ==
    \E k \in 1..Len(AllData(chartData)) :
        /\ IndexOf(axes.y, AllData(chartData)[k][Y_KEY]) = i
        /\ IndexOf(axes.x, AllData(chartData)[k][X_KEY]) = j

\* C9: after parse a cell holds a handler exactly when at least one row maps
\* to it, and every other cell still holds the falsy placeholder.
C9_OccupiedIffRowMaps ==
    (last.op \in {"render", "parse"} /\ ~last.threw) =>
        \A i \in 0..(Len(axes.y) - 1), j \in 0..(Len(axes.x) - 1) :
            IF RowMapsTo(i, j) THEN Truthy(MatrixGet(Pack, i, j))
            ELSE MatrixGet(Pack, i, j) = 0

\* a 2x2 grid with exactly 2 occupied and 2 empty cells
C9_Witness ==
    /\ last.op = "render"
    /\ Len(axes.x) = 2
    /\ Len(axes.y) = 2
    /\ Cardinality({c \in (0..1) \X (0..1) : Truthy(MatrixGet(Pack, c[1], c[2]))}) = 2
    /\ Cardinality({c \in (0..1) \X (0..1) : MatrixGet(Pack, c[1], c[2]) = 0}) = 2

\* the values of a key over the rows of all series, in dataset order
KeyValues(key) ==
    [k \in 1..Len(AllData(chartData)) |-> AllData(chartData)[k][key]]

\* C10: with the default hook the axis model contains each distinct value of
\* the key exactly once, in order of first occurrence, so its length is the
\* number of distinct values.
C10_ModelDistinctFirstOccurrence ==
    renders >= 1 =>
        \A key \in {X_KEY, Y_KEY} :
            LET model == axes[key]
                values == KeyValues(key)
            IN  /\ {model[k] : k \in 1..Len(model)}
                       = {values[k] : k \in 1..Len(values)}
                /\ Len(model) = Cardinality({values[k] : k \in 1..Len(values)})
                /\ \A p, q \in 1..Len(model) :
                       p < q => /\ model[p] # model[q]
                                /\ IndexOf(values, model[p]) < IndexOf(values, model[q])

\* a dataset in which a value recurs after another value was first seen
C10_Witness ==
    /\ renders >= 1
    /\ axes.x = <<10, 0>>
    /\ KeyValues(X_KEY)[Len(KeyValues(X_KEY))] = 10
    /\ Len(KeyValues(X_KEY)) >= 3

\* the same JS value: the same type and the same content
JsSame(a, b) == a.t = b.t /\ a.v = b.v

\* the de-duplicated array of a key, before any hook
Deduplicated(key) == ArrayFromSet(KeyValues(key))

\* undefined, null, 0, false or the empty string
IsListedFalsy(val) ==
    \/ val.t \in {"undefined", "null"}
    \/ val.t = "number" /\ val.v = 0
    \/ val.t = "boolean" /\ val.v = FALSE
    \/ val.t = "string" /\ val.v = ""

\* C11: when config.model is a function, the axis model is the hook's return
\* value if that value is truthy, and the de-duplicated array if the hook
\* returns undefined, null, 0, false or the empty string.
C11_HookResultOrOriginal ==
    \A key \in {X_KEY, Y_KEY} :
        (axisModels[key].t # "undefined" /\ config[key] # NOT_A_FUNCTION) =>
            LET returned == ModelUpdateFn(config[key], Deduplicated(key))
            IN  IF IsListedFalsy(returned)
                THEN JsSame(axisModels[key], JsArray(Deduplicated(key)))
                ELSE JsSame(axisModels[key], returned)

\* one axis whose hook reordered the model and one whose hook returned 0
C11_Witness ==
    /\ config[X_KEY] = "reverse"
    /\ config[Y_KEY] = "zero"
    /\ axisModels[X_KEY].t = "array"
    /\ axisModels[X_KEY].v # Deduplicated(X_KEY)
    /\ axisModels[Y_KEY].t = "array"
    /\ axisModels[Y_KEY].v = Deduplicated(Y_KEY)
    /\ Len(Deduplicated(Y_KEY)) = 2

\* C12: when the hook returns a value that is not a sequence (a non-zero
\* number, a string, a plain object), the de-duplicated model is kept as the
\* axis model.
C12_NonSequenceKeepsOriginal ==
    \A key \in {X_KEY, Y_KEY} :
        (/\ axisModels[key].t # "undefined"
         /\ config[key] # NOT_A_FUNCTION
         /\ ModelUpdateFn(config[key], Deduplicated(key)).t # "array") =>
            JsSame(axisModels[key], JsArray(Deduplicated(key)))

\* C13: getColorByDomain(v) of a series color axis returns colors[k] when v is
\* the k-th series name and k is within the configured colors, and the
\* default color when v is no series name or k is beyond the colors.
C13_ColorBySeriesName ==
    last.op = "getColorByDomain" =>
        LET v == last.name
            colors == colorAxis.colorAxisData.code.colors
            positions == {k \in 1..Len(chartData) : chartData[k].name = v}
        IN  /\ \A k \in positions : k <= Len(colors) => colorResult = colors[k]
            /\ (positions = {} \/ \E k \in positions : k > Len(colors)) =>
                   colorResult = DEF_COLOR

\* three series, three colors, and the color of the second series asked for
C13_Witness ==
    /\ last.op = "getColorByDomain"
    /\ last.name = SeriesName(2)
    /\ Len(chartData) = 3
    /\ Len(colorAxis.colorAxisData.code.colors) = 3
    /\ colorResult = "color2"

\* C14: colorAxisManager.init with a code.type other than 'series' or
\* 'gradient' (compared case-insensitively) returns no axis instance, on every
\* call, also after an earlier init that succeeded.
C14_UnknownTypeGivesNoInstance ==
    (/\ last.op = "colorAxisManager.init"
     /\ ToLowerCase(last.name) \notin {"series", "gradient"}) =>
        colorAxis.class = "undefined"

\* C20: for a series color axis with N labels getStopsConfiguration yields
\* N-1 break ratios, the one for index = 1..N-1 being floor(index/N*100), and
\* 2(N-1) stops: for each index two consecutive stops with that offset, the
\* first with colors[index-1] and the second with colors[index].
C20_SeriesStops ==
    (last.op = "getStopsConfiguration" /\ Len(chartData) >= 1) =>
        LET N == Len(chartData)
            colors == colorAxis.colorAxisData.code.colors
            stops == colorResult.stopsConf
            ratios == colorResult.breakRatios
        IN  /\ Len(ratios) = N - 1
            /\ Len(stops) = 2 * (N - 1)
            /\ \A index \in 1..(N - 1) :
                   /\ ratios[index] = (index * 100) \div N
                   /\ stops[2 * index - 1].offset = ToString(ratios[index]) \o "%"
                   /\ stops[2 * index].offset = ToString(ratios[index]) \o "%"
                   /\ stops[2 * index - 1].stopColor = ColorAt(colors, index - 1)
                   /\ stops[2 * index].stopColor = ColorAt(colors, index)

\* three labels: break ratios 33 and 66 and four stops
C20_Witness ==
    /\ last.op = "getStopsConfiguration"
    /\ Len(chartData) = 3
    /\ colorResult.breakRatios = <<33, 66>>
    /\ Len(colorResult.stopsConf) = 4
    /\ colorResult.stopsConf[1].stopColor = "color1"
    /\ colorResult.stopsConf[2].stopColor = "color2"
    /\ colorResult.stopsConf[2].offset = "33%"

\* the cells of a series that have no entry in the table
CellsWithoutEntry(sid) ==
    {k \in 1..Len(instances[sid].cells) :
         UpdateKey(instances[sid].cells[k][1], instances[sid].cells[k][2])
             \notin DOMAIN updateM}

\* C15: unset(series), when some cell of series.cells has no entry in the
\* table, ends in an error, fires no end event and leaves every handler's
\* series list as it was before the call.
C15_UnsetMissingEntryChangesNothing ==
    [][(/\ last'.op = "perform"
        /\ last'.sid # 0
        /\ CellsWithoutEntry(last'.sid) # {}) =>
           /\ last'.threw
           /\ last'.endFired = <<>>
           /\ evLog' = <<>>
           /\ handlers' = handlers]_vars

\* some row of the dataset has a key value that is absent from its axis model
RowOutsideModels ==
    \E k \in 1..Len(AllData(chartData)) :
        \/ IndexOf(axes.y, AllData(chartData)[k][Y_KEY]) = -1
        \/ IndexOf(axes.x, AllData(chartData)[k][X_KEY]) = -1

\* C16: when a row's X or Y value is absent from the axis model, parse
\* surfaces an error and writes nothing out of bounds: no cell outside the
\* matrix is written, no table entry has a negative index, and no series'
\* cells list gains a cell with a negative index.
C16_AbsentValueWritesNothing ==
    (last.op = "render" /\ RowOutsideModels) =>
        /\ last.threw
        /\ DOMAIN rowProps = {}
        /\ \A key \in DOMAIN updateM :
               updateM[key][1] >= 0 /\ updateM[key][2] >= 0
        /\ \A sid \in 1..Len(instances) :
               \A k \in 1..Len(instances[sid].cells) :
                   instances[sid].cells[k][1] >= 0 /\ instances[sid].cells[k][2] >= 0

\* C17: ColorAxis updatePreDrawingSpace registers the axis in the vertical
\* stack at index 2 with a height of the rect height plus the additional
\* space (largest label height and label margin) plus the outer margin, and
\* this height is the amount by which the shared body height is reduced.
C17_ColorEntryHeightIsReduction ==
    (last.op = "draw" /\ last.name = "colorAxis.updatePreDrawingSpace"
         /\ ~last.threw) =>
        LET entry == masterStack[VERTICAL][3]
            reserved == measurements[entry.measurement].height
        IN  /\ entry.instance = ColorAxisInstance
            /\ reserved = Px(colorAxis.colorAxisData.height)
                              + getAdditionalSpace(colorAxis)
                              + Px(colorAxis.colorAxisData.margin)
            /\ reserved = last.prev - measurements[bodyMetrics].height

ReservePhase ==
    {"placeInStack", "x.updatePreDrawingSpace", "y.updatePreDrawingSpace",
     "colorAxis.updatePreDrawingSpace"}

StackInstances(stackName) ==
    [k \in 1..Len(masterStack[stackName]) |-> masterStack[stackName][k].instance]

\* C18: on the first render, once the reserve phase is over, the vertical
\* stack is [grid body, X axis, color axis] and the horizontal stack is
\* [Y axis, grid body]; the body's vertical position is 0, its horizontal
\* position is the width the Y axis reserved, and the X axis's position is
\* the final body height.
C18_FirstRenderStacks ==
    (renders = 1 /\ pc \notin ReservePhase \cup {"idle", "threw"}) =>
        LET vertical == masterStack[VERTICAL]
            horizontal == masterStack[HORIZONTAL]
        IN  /\ StackInstances(VERTICAL) = <<ChartBody, XAxis, ColorAxisInstance>>
            /\ StackInstances(HORIZONTAL) = <<YAxis, ChartBody>>
            /\ vertical[1].pos = 0
            /\ horizontal[2].pos = measurements[horizontal[1].measurement].width
            /\ horizontal[2].pos = YTotalWidth(axes.y, axisData.y.name, charWidth)
            /\ vertical[2].pos = measurements[bodyMetrics].height

\* the first render past its reserve phase, with named axes, a color axis
\* with an outer margin and two-character labels on the Y axis
C18_Witness ==
    /\ renders = 1
    /\ pc = "getStackItemByInstance"
    /\ axisData.x.name # ""
    /\ axisData.y.name # ""
    /\ colorAxis.colorAxisData.margin > 0
    /\ \E k \in 1..Len(axes.y) : axes.y[k] >= 10
    /\ masterStack[HORIZONTAL][2].pos > 0
    /\ masterStack[VERTICAL][2].pos
           < Px(GridMapStub.height - GridMapStub.margin.top
                    - GridMapStub.margin.bottom)

ReserveCalls ==
    {"x.updatePreDrawingSpace", "y.updatePreDrawingSpace",
     "colorAxis.updatePreDrawingSpace"}
DrawCalls == {"x.draw", "y.draw", "colorAxis.draw"}

\* the call was made before position k of the trace
CalledBefore(call, k) == \E m \in 1..(k - 1) : trace[m] = call

\* C19: in one gridManager.draw the three updatePreDrawingSpace calls are
\* over before any axis is drawn; the parse comes after the three draws and
\* after the renderer and the tracker registered as end-listeners, and it
\* ends with one end event that follows all its sets and reaches both.
C19_ReserveDrawParseOrder ==
    /\ \A k \in 1..Len(trace) :
           /\ trace[k] \in DrawCalls =>
                  \A call \in ReserveCalls : CalledBefore(call, k)
           /\ trace[k] = "parse" =>
                  \A call \in DrawCalls \cup {"DatasetRenderer", "TrackerModel"} :
                      CalledBefore(call, k)
    /\ (last.op = "draw" /\ last.name = "parse") =>
           /\ Len(last.endFired) = 1
           /\ last.endFired[1].touched = touched
           /\ Len(evLog) = 2
           /\ \A k \in 1..Len(evLog) : evLog[k].ev = "end"
           /\ evLog[1].ctx = "renderer"
           /\ evLog[2].ctx = "tracker"

\* a second render that ran to its end with cells set by the parse
C19_Witness ==
    /\ renders = 2
    /\ pc = "done"
    /\ last.name = "parse"
    /\ Len(trace) = Len(DrawSteps)
    /\ Cardinality(touched) >= 2
    /\ Len(evLog) = 2

\* C23: the key of the pending-update table is injective on cells: two
\* different cells that were set to a handler never share a key, on grids
\* with indices of 10 or more too, so the table has one entry per such cell.
C23_KeyInjectiveOnCells ==
    /\ \A c \in touched : \A d \in touched :
           c # d => UpdateKey(c[1], c[2]) # UpdateKey(d[1], d[2])
    /\ Cardinality(DOMAIN updateM) = Cardinality(touched)

\* C24: every entry [i, j, h] of the pending-update table has get(i, j) = h,
\* after any sequence of set, parse and unset operations.
C24_TableEntriesAreCurrent ==
    \A key \in DOMAIN updateM :
        LET entry == updateM[key]
        IN  MatrixGet(Pack, entry[1], entry[2]) = entry[3]

\* C25: a second unset of the same series right after the first changes no
\* handler's series list and no cell of the matrix, and fires exactly one
\* further end event.
C25_SecondUnsetChangesNothing ==
    [][(last.op = "perform" /\ ~last.threw
            /\ last'.op = "perform" /\ last'.name = last.name
            /\ ops' = ops + 1) =>
          /\ ~last'.threw
          /\ handlers' = handlers
          /\ matrix' = matrix
          /\ Len(last'.endFired) = 1]_vars

\* C26: perform(DELETE_BY_SID, [name]) with the name of a series of the
\* dataset acts on the Series instance the most recent parse created for
\* that name, also when the dataset was parsed more than once.
C26_DeleteActsOnCurrentSeries ==
    (last.op = "perform" /\ last.name \in DataNames) =>
        /\ last.sid \in LatestSeries
        /\ instances[last.sid].name = last.name

\* the frame series untouched (still listed at each of its cells) and the
\* other series, which has two cells or more, deleted by the second of two
\* operations, none of which was a parse: both were its deletion
C25_Witness ==
    /\ last.op = "perform"
    /\ ~last.threw
    /\ ops = 2
    /\ renders = 1
    /\ Len(chartData) = 2
    /\ Len(instances) = 2
    /\ last.sid = 2
    /\ Len(instances[2].cells) >= 2
    /\ Len(instances[1].cells) >= 2
    /\ \A k \in 1..Len(instances[1].cells) :
           LET cell == instances[1].cells[k]
           IN  Occurrences(handlers[MatrixGet(Pack, cell[1], cell[2])], 1) = 1
    /\ \E k \in 1..Len(instances[2].cells) :
           LET cell == instances[2].cells[k]
           IN  Len(handlers[MatrixGet(Pack, cell[1], cell[2])].series) = 1

\* the whole numbers of breaks greater than 1
WholeBreaks(breaks) ==
    breaks.defined /\ breaks.halves > 2 /\ breaks.halves % 2 = 0

\* C21: getClippedRect gives a clip description that partitions the axis
\* into exactly noOfBreaks equal sections when noOfBreaks is configured
\* greater than 1; for every other configuration (absent, 0, 1, negative) it
\* gives no clip path: it returns null and never sets out to build one.
C21_ClipOnlyForBreaksAboveOne ==
    /\ clip.pc = "loop" => (clip.breaks.defined /\ clip.breaks.halves > 2)
    /\ (clip.pc = "returned" /\ ~(clip.breaks.defined /\ clip.breaks.halves > 2))
           => (clip.url = "null" /\ clip.rects = <<>>)
    /\ (clip.pc = "returned" /\ WholeBreaks(clip.breaks)) =>
           LET n == clip.breaks.halves \div 2
               tolerance == AxisBreak * RatioScale
           IN  /\ clip.url # "null"
               /\ Len(clip.rects) = n
               /\ \A k \in 1..n :
                      /\ clip.rects[k].width + tolerance = clip.refRect.width \div n
                      /\ clip.rects[k].x - tolerance
                             = clip.refRect.x + (k - 1) * (clip.refRect.width \div n)

\* C27: getClippedRect terminates for every numeric noOfBreaks, negative
\* values and fractions above 1 included: a call in its loop returns.
C27_ClipTerminates == (clip.pc = "loop") ~> (clip.pc = "returned")

\* C28: a second render with the same inputs gives its own body, X axis,
\* Y axis and color axis the stack positions the first render gave its
\* components.
C28_SecondRenderSamePositions ==
    (Len(placed) = 2 /\ placed[1].color = placed[2].color) =>
        placed[2] = placed[1]

\* two renders with named axes and the same series color config, past the
\* reserve phase of the second: six entries in the vertical stack, and the
\* X axis and the color axis of the second render below its body
C28_Witness ==
    /\ renders = 2
    /\ Len(placed) = 2
    /\ placed[1].color = placed[2].color
    /\ axisData.x.name # ""
    /\ Len(masterStack[VERTICAL]) = 6
    /\ Len(masterStack[HORIZONTAL]) = 4
    /\ placed[2].x > 0
    /\ placed[2].colorAxis > placed[2].x
    /\ placed[2].bodyX > 0

\* C30: drawing the color axis never performs an interaction action,
\* however often the same SeriesColorAxis instance is drawn, and leaves the
\* matrix as it was.
C30_DrawingPerformsNothing ==
    [][pc = "colorAxis.draw" =>
           /\ drawPerformed' = drawPerformed
           /\ matrix' = matrix
           /\ handlers' = handlers]_vars

\* the last operation fired an end event that the renderer and the tracker
\* listened to
ListenersRan ==
    /\ last.endFired # <<>>
    /\ Len(elFns) = 2
    /\ eventMap.end.kind = "composite"

\* the rects of the renderer's group for the cell of a table entry
RectsOfCell(updateArr) ==
    {d \in DOMAIN view.rects : d.i = updateArr[1] /\ d.j = updateArr[2]}

\* C22: after an end event the renderer's group holds exactly one rect for
\* every table entry whose handler has a series, filled with the color the
\* axis gives for the last series of the handler, and none for an entry
\* whose handler has no series.
C22_OneRectPerEntryLastSeriesWins ==
    ListenersRan =>
        \A key \in DOMAIN updateM :
            LET updateArr == updateM[key]
                dataSeries == handlers[updateArr[3]].series
            IN  IF dataSeries # <<>>
                THEN /\ Cardinality(RectsOfCell(updateArr)) = 1
                     /\ \A d \in RectsOfCell(updateArr) :
                            /\ view.rects[d] = 1
                            /\ d.fill = getColorByDomain(colorAxis,
                                   instances[dataSeries[Len(dataSeries)]].name)
                ELSE RectsOfCell(updateArr) = {}

\* a cell with two series drawn in the color of the second, and, after a
\* click on the legend, a cell whose only series was deleted
C22_Witness ==
    /\ ListenersRan
    /\ last.op = "perform"
    /\ \E key \in DOMAIN updateM : handlers[updateM[key][3]].series = <<>>
    /\ \E d \in DOMAIN view.rects : d.fill = "color2"

\* C29: on every end event the renderer's draw is called before the
\* tracker's, and every generator the tracker then reads was made by the
\* renderer's draw of this event.
C29_TrackerReadsRefreshedGenerators ==
    ListenersRan =>
        /\ \A k \in 1..Len(evLog) :
               evLog[k].fn = "tracker.draw" =>
                   k > 1 /\ evLog[k - 1].fn = "renderer.draw"
        /\ \A read \in view.reads : read.made = view.draws

====
